---- MODULE Spec2Model ----
(***************************************************************************)
(* The per-tick engine of emergent-life: class Simulation of               *)
(* src/src/simulation/simulation.ts, in its two versions (the discovery    *)
(* engine, lines 16-311, and the fixed-catalog engine, lines 329-834),     *)
(* with the particle classes they instantiate.                             *)
(*                                                                         *)
(* Numbers.  Positions and lengths are JavaScript doubles.  The model      *)
(* keeps them as integers: every parameter and every Math.random() draw    *)
(* below is chosen so that the values the code computes are integers       *)
(* (draws are rationals <<n, d>> standing for n/d).  All substrate         *)
(* particles share one y and move along x (direction draws 0 and 1/2,      *)
(* i.e. angles 0 and pi), so a line of centres is always the x axis.       *)
(* Visualization intensity is kept in hundredths (1.0 is 100, 0.05 is 5),  *)
(* an efficiency in hundredths as well.                                    *)
(*                                                                         *)
(* Stores.  A JavaScript Map iterates in insertion order; both stores are  *)
(* only ever inserted into under the key nextId, which only grows between  *)
(* two initialize() calls, so insertion order is ascending id order.  A    *)
(* store is a function from its set of ids, iterated by ascending id.      *)
(*                                                                         *)
(* The worker.  src/src/simulation/worker.ts keeps its own particles in    *)
(* fixed-size arrays with a stack of free slots; it does not use class     *)
(* Simulation.  Its module-level variables are the fields of the record    *)
(* worker, its message handler and its timer are the actions of            *)
(* SpecWorker; each handler runs to completion, so each is one step.       *)
(***************************************************************************)
EXTENDS Integers, Sequences, FiniteSets, TLC

(* ----------------------------- bounds --------------------------------- *)

\* step() is not called once the frame counter has reached MaxFrames.
MaxFrames == 1

\* The worker's timer does not fire once its frame counter has reached
\* MaxTicks; the worker gets no 'init' or 'reset' command once its lineage
\* counter is past MaxLineageId.
MaxTicks == 2
MaxLineageId == 3

\* The worker gets no 'start' command that would create another interval
\* timer once it has created MaxIntervals of them.
MaxIntervals == 2

(* --------------------------- ParticleType ------------------------------ *)

ParticleType_A == 0
ParticleType_B == 1
ParticleType_C == 2
ParticleType_D == 3
\* Tag 4 is Binder in the fixed-catalog engine and E in the discovery engine.
ParticleType_Binder == 4
ParticleType_E == 4

\* ParticleType.Energy: 7 beside the fixed-catalog engine, 5 beside the
\* discovery engine.
ParticleType_Energy(m) == IF m = "fixed" THEN 7 ELSE 5

Modes == {"fixed", "discovery"}

\* The substrate types initialize() seeds, in the order it seeds them.
SeededTypes(m) ==
    IF m = "fixed"
    THEN <<ParticleType_A, ParticleType_B, ParticleType_C, ParticleType_D,
           ParticleType_Binder>>
    ELSE <<ParticleType_A, ParticleType_B, ParticleType_C, ParticleType_D,
           ParticleType_E>>

(* ------------------------------ numbers -------------------------------- *)

\* v * (n/d) for a draw or fraction u = <<n, d>>.
Mul(v, u) == (v * u[1]) \div u[2]

\* Math.floor(a / b), for b # 0.
FloorDiv(a, b) == IF b > 0 THEN a \div b ELSE (0 - a) \div (0 - b)

Max(a, b) == IF a >= b THEN a ELSE b
Min(a, b) == IF a <= b THEN a ELSE b
Abs(a) == IF a >= 0 THEN a ELSE 0 - a
Sign(a) == IF a > 0 THEN 1 ELSE IF a < 0 THEN 0 - 1 ELSE 0

\* The square of Math.hypot(dx, dy).
Hypot2(dx, dy) == dx * dx + dy * dy

\* Math.floor(Math.sqrt(n)): exact whenever n is a square.
ISqrt(n) == CHOOSE k \in 0..n : k * k <= n /\ (k + 1) * (k + 1) > n

\* Math.hypot(dx, dy) < bound, and Math.hypot(dx, dy) >= bound.
HypotLess(dx, dy, bound) == bound > 0 /\ Hypot2(dx, dy) < bound * bound
HypotAtLeast(dx, dy, bound) == ~HypotLess(dx, dy, bound)

\* Math.cos and Math.sin of u * 2 * Math.PI for the quarter turns.
Cos(u) == CASE u = <<0, 1>> -> 1 [] u = <<1, 4>> -> 0
            [] u = <<1, 2>> -> 0 - 1 [] u = <<3, 4>> -> 0
Sin(u) == CASE u = <<0, 1>> -> 0 [] u = <<1, 4>> -> 1
            [] u = <<1, 2>> -> 0 [] u = <<3, 4>> -> 0 - 1

\* Math.random() < pct / 100 for a draw u = <<n, d>>.
RandomBelow(u, pct) == u[1] * 100 < pct * u[2]

\* The ids of a store in iteration order.
RECURSIVE SortedIds(_)
SortedIds(S) ==
    IF S = {} THEN <<>>
    ELSE LET m == CHOOSE a \in S : \A b \in S : a <= b
         IN <<m>> \o SortedIds(S \ {m})

Range(s) == {s[k] : k \in DOMAIN s}

(* --------------------------- Math.random() ----------------------------- *)

\* createInitialParticles: the x and y draws of a seeded substrate particle.
SpawnXDraws(m) == IF m = "fixed" THEN {<<1, 6>>, <<1, 3>>} ELSE {<<3, 10>>, <<2, 5>>}
SpawnYDraw == <<1, 2>>
\* initialize: the draws of a seeded energy carrier.
EnergySeedXDraws == {<<1, 2>>}
EnergySeedYDraw == <<1, 2>>

(* ---------------------------- parameters ------------------------------- *)

\* The SimulationParams the engine is constructed with.
ConstructorParams(m) ==
    [Lx |-> 40, Ly |-> 40,
     particleCountA |-> IF m = "fixed" THEN 2 ELSE 1,
     particleCountB |-> 1, particleCountC |-> 0, particleCountD |-> 0,
     particleCountE |-> 0, particleCountBinder |-> 0,
     energyParticleCount |-> 1,
     particleRadius |-> 4, randomStepMagnitudeX |-> 4,
     collisionEnergyLossPct |-> 0, binderForceUnitDistanceInR |-> 2,
     reactionDistanceInR |-> 3, particleLifespan |-> 2,
     particleDiameter |-> 8, timeStep |-> 1, diffusionCoefficient |-> 8,
     energyFlowVelocity |-> 1, energyInflowRate |-> 1,
     reactionRadius |-> 12, reactionDiscoveryProbability |-> 50,
     particleDecayRate |-> 0]

\* The Partial<SimulationParams> arguments of updateParams(): the type admits
\* any number, and nothing in the engine looks at the values.
ParamUpdates ==
    { [particleRadius |-> 0 - 4, particleCountB |-> 0 - 1] }

\* { ...params, ...newParams }
Merge(old, new) ==
    [k \in DOMAIN old |-> IF k \in DOMAIN new THEN new[k] ELSE old[k]]

(* ---------------------------- the catalog ------------------------------ *)

\* getReactionKey without the comparison: `${type1}-${type2}` as given.
getReactionKeyUnsorted(type1, type2) ==
    ToString(type1) \o "-" \o ToString(type2)

\* getReactionKey: the template string `${lo}-${hi}` of the two numeric enum
\* tags, the smaller first.
getReactionKey(type1, type2) ==
    IF type1 < type2
    THEN ToString(type1) \o "-" \o ToString(type2)
    ELSE ToString(type2) \o "-" \o ToString(type1)

Reaction(a, b, catalyst, product1, product2, efficiency) ==
    [reactant1 |-> a, reactant2 |-> b, catalyst |-> catalyst,
     product1 |-> product1, product2 |-> product2, efficiency |-> efficiency]

\* Map.prototype.set.
MapSet(map, key, value) ==
    [k \in DOMAIN map \cup {key} |-> IF k = key THEN value ELSE map[k]]

\* seedFixedReactions with the two cross-pair rules yielding base types only.
SeedReactionsWithoutBinderSource ==
    << Reaction(ParticleType_A, ParticleType_B, ParticleType_A, ParticleType_A, ParticleType_A, 50),
       Reaction(ParticleType_B, ParticleType_C, ParticleType_B, ParticleType_B, ParticleType_B, 50),
       Reaction(ParticleType_C, ParticleType_D, ParticleType_C, ParticleType_C, ParticleType_C, 50),
       Reaction(ParticleType_D, ParticleType_A, ParticleType_D, ParticleType_D, ParticleType_D, 50),
       Reaction(ParticleType_A, ParticleType_C, ParticleType_A, ParticleType_C, ParticleType_A, 30),
       Reaction(ParticleType_B, ParticleType_D, ParticleType_B, ParticleType_D, ParticleType_B, 30),
       Reaction(ParticleType_A, ParticleType_Binder, ParticleType_Binder, ParticleType_A, ParticleType_A, 70),
       Reaction(ParticleType_B, ParticleType_Binder, ParticleType_Binder, ParticleType_B, ParticleType_B, 70),
       Reaction(ParticleType_C, ParticleType_Binder, ParticleType_Binder, ParticleType_C, ParticleType_C, 60),
       Reaction(ParticleType_D, ParticleType_Binder, ParticleType_Binder, ParticleType_D, ParticleType_D, 60) >>

\* The add(...) calls of seedFixedReactions, in order.
SeedReactions ==
    << Reaction(ParticleType_A, ParticleType_B, ParticleType_A, ParticleType_A, ParticleType_A, 50),
       Reaction(ParticleType_B, ParticleType_C, ParticleType_B, ParticleType_B, ParticleType_B, 50),
       Reaction(ParticleType_C, ParticleType_D, ParticleType_C, ParticleType_C, ParticleType_C, 50),
       Reaction(ParticleType_D, ParticleType_A, ParticleType_D, ParticleType_D, ParticleType_D, 50),
       Reaction(ParticleType_A, ParticleType_C, ParticleType_A, ParticleType_Binder, ParticleType_A, 30),
       Reaction(ParticleType_B, ParticleType_D, ParticleType_B, ParticleType_Binder, ParticleType_B, 30),
       Reaction(ParticleType_A, ParticleType_Binder, ParticleType_Binder, ParticleType_A, ParticleType_A, 70),
       Reaction(ParticleType_B, ParticleType_Binder, ParticleType_Binder, ParticleType_B, ParticleType_B, 70),
       Reaction(ParticleType_C, ParticleType_Binder, ParticleType_Binder, ParticleType_C, ParticleType_C, 60),
       Reaction(ParticleType_D, ParticleType_Binder, ParticleType_Binder, ParticleType_D, ParticleType_D, 60) >>

RECURSIVE AddAll(_, _)
AddAll(map, rs) ==
    IF rs = <<>> THEN map
    ELSE AddAll(MapSet(map, getReactionKey(Head(rs).reactant1, Head(rs).reactant2),
                       Head(rs)),
                Tail(rs))

EmptyMap == [k \in {} |-> 0]

seedFixedReactions == AddAll(EmptyMap, SeedReactions)

(* ------------------------------ state ---------------------------------- *)

VARIABLES
    mode,             \* which version of class Simulation this engine is
    params,           \* Simulation.params
    Lx, Ly,           \* Simulation.Lx, Simulation.Ly
    particles,        \* Simulation.particles: id -> SubstrateParticle
    energyParticles,  \* Simulation.energyParticles: id -> EnergyParticle
    reactionCatalog,  \* Simulation.reactionCatalog: key -> Reaction
    frameCount,       \* Simulation.frameCount
    nextId,           \* Simulation.nextId
    totalReactions,   \* Simulation.totalReactions
    pc,               \* position inside step(): 0 outside it, else the index
                      \* into StepOrder of the statement to run next
    activeParticles,  \* processReactionsAndDiscovery: its local activeParticles
    activeEnergy,     \* processReactionsAndDiscovery: its local activeEnergy
    i, j,             \* processReactionsAndDiscovery: its loop indices (from
                      \* 1; i = 0 before the snapshot is taken)
    initialized,      \* history: initialize() has been called
    lastOp,           \* history: the public method that ran last
    trace,            \* history: the statements of the current/last step()
    rxLog,            \* history: the attemptReaction calls of that step()
    reactStart,       \* history: the two stores as that step()'s
                      \* processReactionsAndDiscovery found them
    worker,           \* worker.ts: its module-level state, one field per
                      \* variable, and the event it posted last
    scaffold,         \* the earlier worker script (part_004), when it is the
                      \* script the Worker runs: its module-level state
    probe             \* the scene a motion-phase function is applied to, and
                      \* its result

vars == <<mode, params, Lx, Ly, particles, energyParticles, reactionCatalog,
          frameCount, nextId, totalReactions, pc, activeParticles,
          activeEnergy, i, j, initialized, lastOp, trace, rxLog,
          reactStart, worker, scaffold, probe>>

\* The variables of class Simulation; worker.ts never touches them.
simulation == <<mode, params, Lx, Ly, particles, energyParticles,
                reactionCatalog, frameCount, nextId, totalReactions, pc,
                activeParticles, activeEnergy, i, j, initialized, lastOp,
                trace, rxLog, reactStart>>

engine == <<particles, energyParticles, reactionCatalog, frameCount, nextId,
            totalReactions>>
locals == <<activeParticles, activeEnergy, i, j>>

(* ---------------------------- particles -------------------------------- *)

\* new SubstrateParticle(id, x, y, type, initialLifespan); the discovery
\* engine's class has no lifespan, the field stays 0 there.
SubstrateParticle(x, y, type, initialLifespan) ==
    [x |-> x, y |-> y, type |-> type, lifespan |-> initialLifespan,
     energy |-> 0, active |-> TRUE]

\* new EnergyParticle(id, x, y)
EnergyParticle(x, y) == [x |-> x, y |-> y, active |-> TRUE]

(* --------------------- worker.ts: state and pool ----------------------- *)

\* enum ParticleType of the worker's types.
ParticleType_Monomer == 0
ParticleType_Template == 1

\* What Array.prototype.pop returns on an empty array; no slot has this index.
undefined == 0 - 1

\* The module-level state when the worker script has been loaded: params
\* and the arrays are declared without a value (allocated is FALSE until
\* init() assigns the arrays, params is the empty record until it is set).
\* posted is the event of the last post() call.
WorkerLoaded ==
    [params |-> EmptyMap, allocated |-> FALSE, simulationRunning |-> FALSE,
     frameCount |-> 0, nextLineageId |-> 1,
     p_type |-> EmptyMap, p_x |-> EmptyMap, p_y |-> EmptyMap,
     p_lineageId |-> EmptyMap, p_active |-> EmptyMap,
     inactiveIndices |-> <<>>, posted |-> [type |-> "none"],
     intervals |-> 0, heap |-> 0, arrays |-> {}, postedBuffers |-> {},
     transfer |-> {}, detached |-> {}, touched |-> {}, op |-> "load"]

\* The SimulationParams of an 'init' command, the fields worker.ts reads:
\* positions stay integers with these values.
WorkerParams(seedTemplates) ==
    [Lx |-> 8, Ly |-> 8, particleCount |-> 2, monomerDiameter |-> 1, dt |-> 1,
     diffusionCoefficient |-> 8, flowVelocity |-> 1, inflowRate |-> 2,
     inflowInterval |-> 1, inflowStripWidth |-> 2,
     seedTemplates |-> seedTemplates]

\* The params of the 'init' commands: fewer seeds than slots, and more.
InitCommands == {WorkerParams(1), WorkerParams(3)}

\* The Partial<SimulationParams> of the 'setParams' commands: the pool's
\* size below and above what init() allocated.
SetParamsCommands == {[particleCount |-> 1], [particleCount |-> 3]}

\* Math.random() draws of the worker: the seed's x and y, the inflow's x
\* and y, the Brownian x of an active slot, the Brownian y.
SeedXDraw == <<0, 1>>
SeedYDraw == <<1, 2>>
InflowXDraw == <<1, 2>>
InflowYDraw == <<1, 2>>
BrownianXDraws == {<<0, 1>>, <<3, 4>>}
BrownianYDraw == <<1, 2>>

Has(p, field) == field \in DOMAIN p

\* { ...params, ...cmd.params }
Spread(old, new) ==
    [k \in DOMAIN old \cup DOMAIN new |-> IF k \in DOMAIN new THEN new[k] ELSE old[k]]

\* A typed array of n zeros, by slot index from 0.
Zeros(n) == [k \in 0 .. n - 1 |-> 0]

\* inactiveIndices.pop() returning slot 0 when the stack is empty.
poppedOrFirstSlot(stack) ==
    IF stack = <<>> THEN 0 ELSE stack[Len(stack)]

\* inactiveIndices.pop(): the value returned, and the stack it leaves.
popped(stack) ==
    IF stack = <<>> THEN undefined ELSE stack[Len(stack)]

afterPop(stack) ==
    IF stack = <<>> THEN <<>> ELSE SubSeq(stack, 1, Len(stack) - 1)

\* The assignments that activate slot pId, common to seeding and inflow.
activate(w, pId, type, x, y, lineageId) ==
    [w EXCEPT !.p_active[pId] = 1, !.p_type[pId] = type, !.p_x[pId] = x,
              !.p_y[pId] = y, !.p_lineageId[pId] = lineageId]

\* init(): the seeding loop, k iterations to go.
RECURSIVE seedLoop(_, _)
seedLoop(w, k) ==
    IF k <= 0 THEN w
    ELSE LET pId == popped(w.inactiveIndices)
             p == w.params
         IN  IF pId = undefined THEN w
             ELSE seedLoop(
                    [activate([w EXCEPT !.inactiveIndices = afterPop(@)], pId,
                              ParticleType_Template,
                              (p.Lx * (SeedXDraw[2] + SeedXDraw[1])) \div (4 * SeedXDraw[2]),
                              (SeedYDraw[1] * p.Ly) \div SeedYDraw[2],
                              w.nextLineageId)
                       EXCEPT !.nextLineageId = @ + 1],
                    k - 1)

\* The buffers of the typed arrays init() assigns to the module's variables
\* (p_type, p_x, p_y, p_angle, p_active), under one name: no handler tells
\* one generation of them from the next.
ModuleArrays == {0}

\* init(_params)
init(w, p) ==
    LET n == p.particleCount
        cleared == [w EXCEPT !.params = p, !.allocated = TRUE,
                             !.p_type = Zeros(n), !.p_x = Zeros(n),
                             !.p_y = Zeros(n), !.p_lineageId = Zeros(n),
                             !.p_active = Zeros(n),
                             !.inactiveIndices = [k \in 1 .. n |-> n - k]]
        seeded == seedLoop(cleared,
                           IF Has(p, "seedTemplates") THEN p.seedTemplates ELSE 0)
    IN  [seeded EXCEPT !.posted = [type |-> "initialized"],
                       !.arrays = ModuleArrays,
                       !.postedBuffers = {}, !.transfer = {},
                       !.touched = ModuleArrays]

\* The outflow branch of tick() without its inactiveIndices.push(i).
deactivateWithoutPush(w, slot) ==
    [w EXCEPT !.p_active[slot] = 0]

\* tick(): the outflow branch, "p_active[i] = 0; inactiveIndices.push(i)".
deactivate(w, slot) ==
    [w EXCEPT !.p_active[slot] = 0, !.inactiveIndices = Append(@, slot)]

\* Math.sqrt(2 * params.diffusionCoefficient * params.dt)
workerDiffusionStep(p) == ISqrt(2 * p.diffusionCoefficient * p.dt)

\* diffusionStep * (Math.random() - 0.5) * 2
Brownian(p, u) == (workerDiffusionStep(p) * (2 * u[1] - u[2])) \div u[2]

\* tick(): the loop over the slots from slot on; u[k] is the Brownian x
\* draw of slot k.  A slot beyond the arrays reads as undefined.
RECURSIVE motionLoop(_, _, _)
motionLoop(w, slot, u) ==
    LET p == w.params
    IN  IF slot >= p.particleCount THEN w
        ELSE IF slot \notin DOMAIN w.p_active \/ w.p_active[slot] = 0
        THEN motionLoop(w, slot + 1, u)
        ELSE LET x1 == w.p_x[slot] + Brownian(p, u[slot])
                       + IF w.p_type[slot] = ParticleType_Monomer
                         THEN p.flowVelocity * p.dt ELSE 0
                 y1 == w.p_y[slot] + Brownian(p, BrownianYDraw)
                 y2 == IF y1 < 0 THEN y1 + p.Ly ELSE y1
                 y3 == IF y2 > p.Ly THEN y2 - p.Ly ELSE y2
                 moved == [w EXCEPT !.p_x[slot] = x1, !.p_y[slot] = y3]
             IN  motionLoop(IF x1 > p.Lx \/ x1 < 0
                            THEN deactivate(moved, slot) ELSE moved,
                            slot + 1, u)

\* tick(): the inflow loop, k iterations to go.
RECURSIVE inflowLoop(_, _)
inflowLoop(w, k) ==
    IF k <= 0 THEN w
    ELSE LET pId == popped(w.inactiveIndices)
             p == w.params
         IN  IF pId = undefined THEN w
             ELSE inflowLoop(
                    activate([w EXCEPT !.inactiveIndices = afterPop(@)], pId,
                             ParticleType_Monomer,
                             (InflowXDraw[1] * p.inflowStripWidth) \div InflowXDraw[2],
                             (InflowYDraw[1] * p.Ly) \div InflowYDraw[2],
                             0),
                    k - 1)

\* The slots tick() exports: active, and below params.particleCount.
ExportedSlots(w) ==
    {k \in DOMAIN w.p_active : k < w.params.particleCount /\ w.p_active[k] = 1}

\* The stateUpdate event of tick(), its stats.
stateUpdate(w) ==
    [type |-> "stateUpdate",
     frameCount |-> w.frameCount,
     monomerCount |-> Cardinality({k \in ExportedSlots(w) :
                                     w.p_type[k] = ParticleType_Monomer}),
     templateCount |-> Cardinality({k \in ExportedSlots(w) :
                                      w.p_type[k] # ParticleType_Monomer}),
     activeParticles |-> Cardinality(ExportedSlots(w))]

\* tick() posting the module's own particle arrays instead of copies.
exportBuffersShared(w) == w.arrays

\* The ArrayBuffers of the four typed arrays tick() allocates for its
\* message (positions, types, lineageIds, diameters): new ones, numbered
\* after those allocated so far.
exportBuffers(w) == (w.heap + 1) .. (w.heap + 4)

\* tick() past its first line.  Before init() has assigned the arrays the
\* body throws a TypeError after frameCount++ (params is undefined, or
\* p_active is); with a params record that lacks a field the comparison
\* with undefined is false and the loop or the inflow does not run.  The
\* message carries the four export buffers and its transfer list names
\* them, which detaches them from the worker.
tickBody(w, u) ==
    LET counted == [w EXCEPT !.frameCount = @ + 1, !.touched = {}]
        p == w.params
        moved == IF Has(p, "particleCount") THEN motionLoop(counted, 0, u)
                 ELSE counted
        due == /\ Has(p, "inflowInterval")
               /\ counted.frameCount % p.inflowInterval = 0
        filled == IF due /\ Has(p, "inflowRate")
                  THEN inflowLoop(moved, p.inflowRate) ELSE moved
        bufs == exportBuffers(filled)
    IN  IF ~w.allocated THEN counted
        ELSE [filled EXCEPT !.posted = stateUpdate(filled),
                            !.heap = @ + 4,
                            !.postedBuffers = bufs,
                            !.transfer = bufs,
                            !.detached = @ \cup bufs,
                            !.touched = w.arrays \cup bufs]

\* tick() without "if (!simulationRunning) return".
tickIgnoringStop(w, u) == tickBody(w, u)

\* tick(): a timer callback.  It returns at once unless simulationRunning.
tick(w, u) ==
    IF ~w.simulationRunning THEN [w EXCEPT !.touched = {}] ELSE tickBody(w, u)

(* ----------------------- the earlier worker script -------------------- *)

\* No Worker runs the earlier script.
ScaffoldAbsent ==
    [loaded |-> FALSE, simulationId |-> 0, params |-> "null", timers |-> {},
     created |-> 0, updates |-> 0, op |-> "none"]

\* The earlier script evaluated: simulationId = null (0 here), params =
\* null, the 'ready' response posted.  timers are the interval timers that
\* are set, created the number setInterval has handed out, updates the
\* 'update' responses posted.
ScaffoldLoaded ==
    [loaded |-> TRUE, simulationId |-> 0, params |-> "null", timers |-> {},
     created |-> 0, updates |-> 0, op |-> "load"]

\* start(newParams)
scaffoldStart(sc) ==
    IF sc.simulationId = 0
    THEN [sc EXCEPT !.params = "set", !.simulationId = sc.created + 1,
                    !.timers = @ \cup {sc.created + 1}, !.created = @ + 1]
    ELSE [sc EXCEPT !.params = "set"]

\* stop() without its clearInterval.
scaffoldStopKeepingTimer(sc) ==
    IF sc.simulationId # 0 THEN [sc EXCEPT !.simulationId = 0] ELSE sc

\* stop()
scaffoldStop(sc) ==
    IF sc.simulationId # 0
    THEN [sc EXCEPT !.timers = @ \ {sc.simulationId}, !.simulationId = 0]
    ELSE sc

\* tick(): the placeholder loop posts a dummy state.
scaffoldTick(sc) ==
    IF sc.params = "null" THEN sc ELSE [sc EXCEPT !.updates = @ + 1]

(* ------------------------------ the probe ------------------------------ *)

\* No scene is being examined.
NoProbe == [op |-> "none"]

(* ------------------------- constructor, initialize --------------------- *)

\* The value of reactStart outside a step().
NoStores == [ps |-> EmptyMap, es |-> EmptyMap]

Init ==
    /\ mode \in Modes
    /\ params = ConstructorParams(mode)
    /\ Lx = params.Lx
    /\ Ly = params.Ly
    /\ particles = EmptyMap
    /\ energyParticles = EmptyMap
    /\ reactionCatalog = EmptyMap
    /\ frameCount = 0
    /\ nextId = 0
    /\ totalReactions = 0
    /\ pc = 0
    /\ activeParticles = <<>>
    /\ activeEnergy = <<>>
    /\ i = 0
    /\ j = 0
    /\ initialized = FALSE
    /\ lastOp = "constructor"
    /\ trace = <<>>
    /\ rxLog = <<>>
    /\ reactStart = NoStores
    /\ worker = WorkerLoaded
    /\ scaffold = ScaffoldAbsent
    /\ probe = NoProbe

\* The count initialize() passes to createInitialParticles for each seeded type.
SeedCounts(m, p) ==
    <<p.particleCountA, p.particleCountB, p.particleCountC, p.particleCountD,
      IF m = "fixed" THEN p.particleCountBinder ELSE p.particleCountE>>

\* for (let i = 0; i < count; i++): the iterations of a counting loop.
Iterations(count) == IF count > 0 THEN count ELSE 0

\* The types of the seeded substrate particles, in creation (id) order.
RECURSIVE SeedTypeSeq(_, _)
SeedTypeSeq(types, counts) ==
    IF types = <<>> THEN <<>>
    ELSE [k \in 1..Iterations(Head(counts)) |-> Head(types)]
         \o SeedTypeSeq(Tail(types), Tail(counts))

\* createInitialParticles: where a seeded substrate particle is put.
SpawnX(m, lx, u) ==
    IF m = "fixed" THEN (lx * (u[2] + 3 * u[1])) \div (5 * u[2]) ELSE Mul(lx, u)
SpawnY(m, ly, u) ==
    IF m = "fixed" THEN (ly * (u[2] + 3 * u[1])) \div (5 * u[2]) ELSE Mul(ly, u)

\* The lifespan a new substrate particle is given.
InitialLifespan(m, p) == IF m = "fixed" THEN p.particleLifespan ELSE 0

\* initialize() without its three counter assignments.
initializeKeepingCounters(xs, exs) ==
    LET types == SeedTypeSeq(SeededTypes(mode), SeedCounts(mode, params))
        n == Len(types)
        ne == Iterations(params.energyParticleCount)
    IN  /\ particles' =
              [id \in 0..(n - 1) |->
                  SubstrateParticle(SpawnX(mode, Lx, xs[id + 1]),
                                    SpawnY(mode, Ly, SpawnYDraw),
                                    types[id + 1],
                                    InitialLifespan(mode, params))]
        /\ energyParticles' =
              [id \in n..(n + ne - 1) |->
                  EnergyParticle(Mul(Lx, exs[id - n + 1]) \div 10,
                                 Mul(Ly, EnergySeedYDraw))]
        /\ reactionCatalog' =
              IF mode = "fixed" THEN seedFixedReactions ELSE EmptyMap
        /\ UNCHANGED <<frameCount, totalReactions>>
        /\ nextId' = n + ne

\* initialize(), given the draws xs (substrate) and exs (energy carriers).
initialize(xs, exs) ==
    LET types == SeedTypeSeq(SeededTypes(mode), SeedCounts(mode, params))
        n == Len(types)
        ne == Iterations(params.energyParticleCount)
    IN  /\ particles' =
              [id \in 0..(n - 1) |->
                  SubstrateParticle(SpawnX(mode, Lx, xs[id + 1]),
                                    SpawnY(mode, Ly, SpawnYDraw),
                                    types[id + 1],
                                    InitialLifespan(mode, params))]
        /\ energyParticles' =
              [id \in n..(n + ne - 1) |->
                  EnergyParticle(Mul(Lx, exs[id - n + 1]) \div 10,
                                 Mul(Ly, EnergySeedYDraw))]
        /\ reactionCatalog' =
              IF mode = "fixed" THEN seedFixedReactions ELSE EmptyMap
        /\ frameCount' = 0
        /\ nextId' = n + ne
        /\ totalReactions' = 0

SeedDraws ==
    LET n == Len(SeedTypeSeq(SeededTypes(mode), SeedCounts(mode, params)))
        ne == Iterations(params.energyParticleCount)
    IN  [xs : [1..n -> SpawnXDraws(mode)], exs : [1..ne -> EnergySeedXDraws]]

Initialize ==
    /\ pc = 0
    /\ \E d \in SeedDraws : initialize(d.xs, d.exs)
    /\ initialized' = TRUE
    /\ lastOp' = "initialize"
    /\ trace' = <<>>
    /\ rxLog' = <<>>
    /\ reactStart' = NoStores
    /\ UNCHANGED <<mode, params, Lx, Ly, pc, locals>>
    /\ UNCHANGED <<worker, scaffold, probe>>

\* reset(): this.initialize()
Reset ==
    /\ pc = 0
    /\ \E d \in SeedDraws : initialize(d.xs, d.exs)
    /\ initialized' = TRUE
    /\ lastOp' = "reset"
    /\ trace' = <<>>
    /\ rxLog' = <<>>
    /\ reactStart' = NoStores
    /\ UNCHANGED <<mode, params, Lx, Ly, pc, locals>>
    /\ UNCHANGED <<worker, scaffold, probe>>

\* updateParams(newParams)
updateParams(newParams) ==
    /\ params' = Merge(params, newParams)
    /\ Lx' = IF "Lx" \in DOMAIN newParams /\ newParams.Lx # 0 THEN newParams.Lx ELSE Lx
    /\ Ly' = IF "Ly" \in DOMAIN newParams /\ newParams.Ly # 0 THEN newParams.Ly ELSE Ly

UpdateParams ==
    /\ pc = 0
    /\ \E newParams \in ParamUpdates : updateParams(newParams)
    /\ lastOp' = "updateParams"
    /\ UNCHANGED <<mode, engine, pc, locals, initialized, trace, rxLog,
                   reactStart>>
    /\ UNCHANGED <<worker, scaffold, probe>>

(* ------------------------------- step() -------------------------------- *)

\* step() with the frame counter incremented last.
StepOrderFrameLast == <<"move", "inflow", "react", "cleanup", "frame">>

\* step() with handleEnergyInflow() called before the motion phase.
StepOrderInflowFirst == <<"frame", "inflow", "move", "react", "cleanup">>

\* The statements of step(), in the order it runs them.
StepOrder == <<"frame", "move", "inflow", "react", "cleanup">>

At(stmt) == pc > 0 /\ StepOrder[pc] = stmt

\* The statement after the current one; the return after the last.
Advance == pc' = IF pc = Len(StepOrder) THEN 0 ELSE pc + 1

\* A call of step().  The code has no guard on the engine's state.
Step ==
    /\ pc = 0
    /\ frameCount < MaxFrames
    /\ pc' = 1
    /\ lastOp' = "step"
    /\ trace' = <<>>
    /\ rxLog' = <<>>
    /\ reactStart' = NoStores
    /\ UNCHANGED <<mode, params, Lx, Ly, engine, locals, initialized>>
    /\ UNCHANGED <<worker, scaffold, probe>>

\* this.frameCount++
IncrementFrame ==
    /\ At("frame")
    /\ frameCount' = frameCount + 1
    /\ trace' = Append(trace, "frame")
    /\ Advance
    /\ UNCHANGED <<mode, params, Lx, Ly, particles, energyParticles,
                   reactionCatalog, nextId, totalReactions, locals,
                   initialized, lastOp, rxLog, reactStart>>
    /\ UNCHANGED <<worker, scaffold, probe>>

(* --------------------- motion: fixed-catalog engine -------------------- *)

energyFlowVelocity == 60
\* energyTurbulence = 0.4, in tenths.
energyTurbulence == 4

\* Direction draws of the random step, turbulence draws of an energy carrier.
AngleDraws == {<<0, 1>>, <<1, 2>>}
TurbulenceDraws == {<<1, 2>>}

\* SubstrateParticle.update() deactivating only below zero.
SubstrateParticle_updateBelowZero(p) ==
    LET l == p.lifespan - 1
    IN  [p EXCEPT !.lifespan = l, !.active = IF l < 0 THEN FALSE ELSE @]

\* SubstrateParticle.update() of particles.ts: the lifespan ticks down.
SubstrateParticle_update(p) ==
    LET l == p.lifespan - 1
    IN  [p EXCEPT !.lifespan = l, !.active = IF l <= 0 THEN FALSE ELSE @]

\* The flow of one active energy carrier, u its turbulence draw.
energyFlow(e, u, lx, ly) ==
    LET x1 == e.x + (energyFlowVelocity * 1) \div 60
        y1 == e.y + ((2 * u[1] - u[2]) * energyTurbulence) \div (20 * u[2])
        y2 == IF y1 < 0 THEN y1 + ly ELSE y1
        y3 == IF y2 > ly THEN y2 - ly ELSE y2
    IN  [x |-> x1, y |-> y3, active |-> IF x1 > lx THEN FALSE ELSE e.active]

\* cellKey(x, y): the cell of a point.
cellKey(x, y, cellSize) == <<FloorDiv(x, cellSize), FloorDiv(y, cellSize)>>

\* The grid: cell -> its particles, in the order they were pushed.
BuildGrid(ps, active, cellSize) ==
    LET cells == {cellKey(ps[id].x, ps[id].y, cellSize) : id \in Range(active)}
    IN  [c \in cells |->
            SelectSeq(active, LAMBDA id : cellKey(ps[id].x, ps[id].y, cellSize) = c)]

\* The block scanned with ix from cx to cx + 1 only.
BlockCellsFromOwnColumn(cx, cy) ==
    << <<cx, cy - 1>>, <<cx, cy>>, <<cx, cy + 1>>,
       <<cx + 1, cy - 1>>, <<cx + 1, cy>>, <<cx + 1, cy + 1>> >>

\* The 3 x 3 block of cells around cell (cx, cy): ix outer, iy inner.
BlockCells(cx, cy) ==
    << <<cx - 1, cy - 1>>, <<cx - 1, cy>>, <<cx - 1, cy + 1>>,
       <<cx, cy - 1>>, <<cx, cy>>, <<cx, cy + 1>>,
       <<cx + 1, cy - 1>>, <<cx + 1, cy>>, <<cx + 1, cy + 1>> >>

RECURSIVE CellMembers(_, _)
CellMembers(grid, cells) ==
    IF cells = <<>> THEN <<>>
    ELSE (IF Head(cells) \in DOMAIN grid THEN grid[Head(cells)] ELSE <<>>)
         \o CellMembers(grid, Tail(cells))

\* neighborsForCollision(p): every particle of the block around p's cell.
neighborsForCollision(grid, x, y, cellSize) ==
    LET c == cellKey(x, y, cellSize)
    IN  CellMembers(grid, BlockCells(c[1], c[2]))

\* Math.hypot(dx, dy) <= radius + 1e-6, on whole numbers.
WithinRadius(dx, dy, radius) == radius >= 0 /\ Hypot2(dx, dy) <= radius * radius

\* getNeighbors(x, y, radius)
getNeighbors(ps, grid, x, y, radius, cellSize) ==
    SelectSeq(neighborsForCollision(grid, x, y, cellSize),
              LAMBDA id : WithinRadius(ps[id].x - x, ps[id].y - y, radius))

\* The pull of q on p (step 2): <<0, 0>> unless q is another particle, a
\* Binder, and not on top of p.
binderPull(ps, p, q, r, binderRange, X) ==
    LET dx == ps[q].x - ps[p].x
        dy == ps[q].y - ps[p].y
        dist == ISqrt(Hypot2(dx, dy))
    IN  IF p = q \/ ps[q].type # ParticleType_Binder \/ Hypot2(dx, dy) = 0
        THEN <<0, 0>>
        ELSE LET dClamped == Max(dist, 2 * r)
                 mag == (X * binderRange * binderRange) \div (dClamped * dClamped)
             IN  <<(dx \div dist) * mag, (dy \div dist) * mag>>

RECURSIVE binderAttraction(_, _, _, _, _, _)
binderAttraction(ps, p, qs, r, binderRange, X) ==
    IF qs = <<>> THEN <<0, 0>>
    ELSE LET a == binderPull(ps, p, Head(qs), r, binderRange, X)
             b == binderAttraction(ps, p, Tail(qs), r, binderRange, X)
         IN  <<a[1] + b[1], a[2] + b[2]>>

\* overlap * 0.5
Half(v) == v \div 2

\* Math.sqrt(Math.max(0, 1 - collisionEnergyLossPct / 100)), in hundredths.
lossFactor(pct) == ISqrt(Max(0, 100 - pct) * 100)

\* v * lossFactor
Damped(v, loss) == (v * loss) \div 100

\* The binder rule treating every pair as two binders.
binderRuleSplitting(c, p, q, nx, ny, overlap, r) ==
    [c EXCEPT !.ps[p].x = @ - nx * Half(overlap),
              !.ps[p].y = @ - ny * Half(overlap),
              !.ps[q].x = @ + nx * Half(overlap),
              !.ps[q].y = @ + ny * Half(overlap),
              !.st[p] = <<0, 0>>, !.st[q] = <<0, 0>>]

\* "Binder collision rule": c.ps are the positions, c.st the pending steps
\* (stepX, stepY), (nx, ny) the unit vector from p to q.
binderRule(c, p, q, nx, ny, overlap, r) ==
    LET pBinder == c.ps[p].type = ParticleType_Binder
        qBinder == c.ps[q].type = ParticleType_Binder
    IN  IF pBinder /\ ~qBinder
        THEN [c EXCEPT !.ps[q].x = c.ps[p].x + nx * 2 * r,
                       !.ps[q].y = c.ps[p].y + ny * 2 * r,
                       !.st[q] = <<0, 0>>]
        ELSE IF qBinder /\ ~pBinder
        THEN [c EXCEPT !.ps[p].x = c.ps[q].x - nx * 2 * r,
                       !.ps[p].y = c.ps[q].y - ny * 2 * r,
                       !.st[p] = <<0, 0>>]
        ELSE [c EXCEPT !.ps[p].x = @ - nx * Half(overlap),
                       !.ps[p].y = @ - ny * Half(overlap),
                       !.ps[q].x = @ + nx * Half(overlap),
                       !.ps[q].y = @ + ny * Half(overlap),
                       !.st[p] = <<0, 0>>, !.st[q] = <<0, 0>>]

\* The elastic collision correcting each position by the whole overlap.
elasticWholeOverlap(c, p, q, nx, ny, overlap, loss) ==
    LET tx == 0 - ny
        ty == nx
        v1n == c.st[p][1] * nx + c.st[p][2] * ny
        v2n == c.st[q][1] * nx + c.st[q][2] * ny
        v1t == c.st[p][1] * tx + c.st[p][2] * ty
        v2t == c.st[q][1] * tx + c.st[q][2] * ty
        v1nPrime == Damped(v2n, loss)
        v2nPrime == Damped(v1n, loss)
    IN  [c EXCEPT !.st[p] = <<v1t * tx + v1nPrime * nx, v1t * ty + v1nPrime * ny>>,
                  !.st[q] = <<v2t * tx + v2nPrime * nx, v2t * ty + v2nPrime * ny>>,
                  !.ps[p].x = @ - nx * overlap,
                  !.ps[p].y = @ - ny * overlap,
                  !.ps[q].x = @ + nx * overlap,
                  !.ps[q].y = @ + ny * overlap]

\* "Elastic collision with damping for two non-binders": the normal
\* components of the pending steps are swapped and damped, the tangential
\* ones kept, and each position is corrected by half the overlap.
elastic(c, p, q, nx, ny, overlap, loss) ==
    LET tx == 0 - ny
        ty == nx
        v1n == c.st[p][1] * nx + c.st[p][2] * ny
        v2n == c.st[q][1] * nx + c.st[q][2] * ny
        v1t == c.st[p][1] * tx + c.st[p][2] * ty
        v2t == c.st[q][1] * tx + c.st[q][2] * ty
        v1nPrime == Damped(v2n, loss)
        v2nPrime == Damped(v1n, loss)
        corr == Half(overlap)
    IN  [c EXCEPT !.st[p] = <<v1t * tx + v1nPrime * nx, v1t * ty + v1nPrime * ny>>,
                  !.st[q] = <<v2t * tx + v2nPrime * nx, v2t * ty + v2nPrime * ny>>,
                  !.ps[p].x = @ - nx * corr,
                  !.ps[p].y = @ - ny * corr,
                  !.ps[q].x = @ + nx * corr,
                  !.ps[q].y = @ + ny * corr]

\* One pair (p, q) of the collision pass (step 4), past "if (q.id <= p.id)
\* continue": the positions and pending steps it leaves.
collide(c, p, q, r, loss) ==
    LET dx == c.ps[q].x - c.ps[p].x
        dy == c.ps[q].y - c.ps[p].y
    IN  IF HypotAtLeast(dx, dy, 2 * r) \/ Hypot2(dx, dy) = 0 THEN c
        ELSE
          LET dist == ISqrt(Hypot2(dx, dy))
              nx == dx \div dist
              ny == dy \div dist
              overlap == 2 * r - dist
          IN  IF c.ps[p].type = ParticleType_Binder
                 \/ c.ps[q].type = ParticleType_Binder
              THEN binderRule(c, p, q, nx, ny, overlap, r)
              ELSE elastic(c, p, q, nx, ny, overlap, loss)

\* The pending steps all zero.
NoSteps(ps) == [id \in DOMAIN ps |-> <<0, 0>>]

\* One pair of the collision pass (step 4): the positions it leaves.
resolvePair(ps, p, q, r) ==
    IF q <= p THEN ps
    ELSE collide([ps |-> ps, st |-> NoSteps(ps)], p, q, r, 100).ps

RECURSIVE resolveNeighbors(_, _, _, _)
resolveNeighbors(ps, p, qs, r) ==
    IF qs = <<>> THEN ps
    ELSE resolveNeighbors(resolvePair(ps, p, Head(qs), r), p, Tail(qs), r)

\* The collision pass over the particles todo; the grid is the one built
\* when the pass began.
RECURSIVE resolveCollisions(_, _, _, _, _)
resolveCollisions(ps, todo, grid, r, cellSize) ==
    IF todo = <<>> THEN ps
    ELSE LET p == Head(todo)
             neigh == neighborsForCollision(grid, ps[p].x, ps[p].y, cellSize)
         IN  resolveCollisions(resolveNeighbors(ps, p, neigh, r), Tail(todo),
                               grid, r, cellSize)

\* The inner loop of the collision pass for the particle p: c.examined
\* lists the pairs that got past "if (q.id <= p.id) continue".
RECURSIVE collideNeighbors(_, _, _, _, _)
collideNeighbors(c, p, qs, r, loss) ==
    IF qs = <<>> THEN c
    ELSE LET q == Head(qs)
             c1 == IF q <= p THEN c
                   ELSE [collide(c, p, q, r, loss)
                           EXCEPT !.examined = Append(@, <<p, q>>)]
         IN  collideNeighbors(c1, p, Tail(qs), r, loss)

\* The collision pass with its pending steps and the pairs it examines.
RECURSIVE collisionPass(_, _, _, _, _, _)
collisionPass(c, todo, grid, r, cellSize, loss) ==
    IF todo = <<>> THEN c
    ELSE LET p == Head(todo)
             neigh == neighborsForCollision(grid, c.ps[p].x, c.ps[p].y, cellSize)
         IN  collisionPass(collideNeighbors(c, p, neigh, r, loss), Tail(todo),
                           grid, r, cellSize, loss)

\* Step 1: the base random step of every particle of todo, in that order.
RECURSIVE baseSteps(_, _, _, _)
baseSteps(c, todo, angle, X) ==
    IF todo = <<>> THEN c
    ELSE LET p == Head(todo)
         IN  baseSteps([c EXCEPT !.st[p] = <<Cos(angle[p]) * X, Sin(angle[p]) * X>>],
                       Tail(todo), angle, X)

\* Step 2 moving each particle as soon as its attraction is added up.
RECURSIVE attractionStepsApplying(_, _, _, _, _, _, _)
attractionStepsApplying(c, todo, grid, r, binderRange, X, cellSize) ==
    IF todo = <<>> THEN c
    ELSE LET p == Head(todo)
             neighbors == getNeighbors(c.ps, grid, c.ps[p].x, c.ps[p].y,
                                       binderRange, cellSize)
             pull == binderAttraction(c.ps, p, neighbors, r, binderRange, X)
         IN  attractionStepsApplying(
                 [c EXCEPT !.st[p] = <<@[1] + pull[1], @[2] + pull[2]>>,
                           !.ps[p].x = @ + c.st[p][1] + pull[1],
                           !.ps[p].y = @ + c.st[p][2] + pull[2]],
                 Tail(todo), grid, r, binderRange, X, cellSize)

\* Step 2: the binder attraction of every particle of todo, in that order,
\* added to its pending step; it reads the positions and writes none.
RECURSIVE attractionSteps(_, _, _, _, _, _, _)
attractionSteps(c, todo, grid, r, binderRange, X, cellSize) ==
    IF todo = <<>> THEN c
    ELSE LET p == Head(todo)
             neighbors == getNeighbors(c.ps, grid, c.ps[p].x, c.ps[p].y,
                                       binderRange, cellSize)
             pull == binderAttraction(c.ps, p, neighbors, r, binderRange, X)
         IN  attractionSteps(
                 [c EXCEPT !.st[p] = <<@[1] + pull[1], @[2] + pull[2]>>],
                 Tail(todo), grid, r, binderRange, X, cellSize)

\* Step 3: the pending steps applied, in the order of todo.
RECURSIVE applySteps(_, _)
applySteps(c, todo) ==
    IF todo = <<>> THEN c
    ELSE LET p == Head(todo)
         IN  applySteps([c EXCEPT !.ps[p].x = @ + c.st[p][1],
                                  !.ps[p].y = @ + c.st[p][2]],
                        Tail(todo))

\* Steps 1 to 3 of updateAndMoveParticles with the particles iterated in
\* the order todo, which is also the order the grid is filled in.
tentativeSteps(c, todo, angle, r, binderRange, X, cellSize) ==
    LET grid == BuildGrid(c.ps, todo, cellSize)
    IN  applySteps(
            attractionSteps(baseSteps(c, todo, angle, X), todo, grid, r,
                            binderRange, X, cellSize),
            todo)

\* Step 5: y wraps, x is clamped.
enforceBoundaries(p, lx, ly) ==
    LET y1 == IF p.y < 0 THEN p.y + ly ELSE p.y
        y2 == IF y1 > ly THEN y1 - ly ELSE y1
        x1 == IF p.x < 0 THEN 0 ELSE p.x
        x2 == IF x1 > lx THEN lx ELSE x1
    IN  [p EXCEPT !.x = x2, !.y = y2]

\* The active substrate particles of a store, in iteration order.
ActiveIds(ps) == SelectSeq(SortedIds(DOMAIN ps), LAMBDA id : ps[id].active)

\* The substrate store after "Update substrate lifespans".
Aged(ps) ==
    [id \in DOMAIN ps |->
        IF ps[id].active THEN SubstrateParticle_update(ps[id]) ELSE ps[id]]

\* updateAndMoveParticles, its substrate part: angle[id] is the direction
\* draw of particle id.
moveSubstrate(ps, angle, p, lx, ly) ==
    LET aged == Aged(ps)
        active == ActiveIds(aged)
        r == p.particleRadius
        X == p.randomStepMagnitudeX
        binderRange == p.binderForceUnitDistanceInR * r
        cellSize == Max(2 * r, binderRange)
        grid == BuildGrid(aged, active, cellSize)
        pull(id) == binderAttraction(aged, id,
                        getNeighbors(aged, grid, aged[id].x, aged[id].y,
                                     binderRange, cellSize),
                        r, binderRange, X)
        stepped == [id \in DOMAIN aged |->
                      IF aged[id].active
                      THEN [aged[id] EXCEPT
                              !.x = @ + Cos(angle[id]) * X + pull(id)[1],
                              !.y = @ + Sin(angle[id]) * X + pull(id)[2]]
                      ELSE aged[id]]
        grid4 == BuildGrid(stepped, active, cellSize)
        collided == resolveCollisions(stepped, active, grid4, r, cellSize)
    IN  IF active = <<>> THEN aged
        ELSE [id \in DOMAIN collided |->
                IF aged[id].active THEN enforceBoundaries(collided[id], lx, ly)
                ELSE collided[id]]

\* updateAndMoveParticles, its energy part.
moveEnergy(es, turb, lx, ly) ==
    [id \in DOMAIN es |->
        IF es[id].active THEN energyFlow(es[id], turb[id], lx, ly) ELSE es[id]]

MoveFixed ==
    /\ mode = "fixed"
    /\ \E angle \in [Range(ActiveIds(Aged(particles))) -> AngleDraws] :
          particles' = moveSubstrate(particles, angle, params, Lx, Ly)
    /\ \E turb \in [DOMAIN energyParticles -> TurbulenceDraws] :
          energyParticles' = moveEnergy(energyParticles, turb, Lx, Ly)

(* ----------------------- motion: discovery engine ---------------------- *)

\* Draws of the Brownian step along x; every other draw of update() is 1/2.
BrownianDraws == {<<0, 1>>, <<1, 2>>}
CentreDraw == <<1, 2>>

\* Math.sqrt(2 * params.diffusionCoefficient * params.timeStep)
diffusionStep(p) == ISqrt(2 * p.diffusionCoefficient * p.timeStep)

\* v * (u - 0.5) * 2 for a draw u.
Centred(v, u) == (v * (2 * u[1] - u[2])) \div u[2]

\* if (y < 0) y += Ly; if (y > Ly) y -= Ly
wrapY(y, ly) ==
    LET y1 == IF y < 0 THEN y + ly ELSE y
    IN  IF y1 > ly THEN y1 - ly ELSE y1

\* SubstrateParticle.update(params, Lx, Ly) of the discovery engine: ux, uy
\* the Brownian draws, ud the decay draw.
SubstrateParticle_updateBrownian(q, p, lx, ly, ux, uy, ud) ==
    LET x1 == q.x + Centred(diffusionStep(p), ux)
        y1 == wrapY(q.y + Centred(diffusionStep(p), uy), ly)
        out == x1 < 0 - 50 \/ x1 > lx + 50
        decayed == RandomBelow(ud, p.particleDecayRate * p.timeStep)
    IN  [q EXCEPT !.x = x1, !.y = y1,
                  !.active = IF out \/ decayed THEN FALSE ELSE @]

\* EnergyParticle.update(params, Lx, Ly) of the discovery engine.
EnergyParticle_update(e, p, lx, ly, ux, uy) ==
    LET x1 == e.x + p.energyFlowVelocity * p.timeStep
                  + Centred(diffusionStep(p), ux) \div 2
        y1 == wrapY(e.y + Centred(diffusionStep(p), uy), ly)
    IN  [x |-> x1, y |-> y1, active |-> IF x1 > lx THEN FALSE ELSE e.active]

\* updateParticles()
MoveDiscovery ==
    /\ mode = "discovery"
    /\ \E ux \in [DOMAIN particles -> BrownianDraws] :
          particles' =
              [id \in DOMAIN particles |->
                  IF particles[id].active
                  THEN SubstrateParticle_updateBrownian(particles[id], params,
                           Lx, Ly, ux[id], CentreDraw, CentreDraw)
                  ELSE particles[id]]
    /\ energyParticles' =
          [id \in DOMAIN energyParticles |->
              IF energyParticles[id].active
              THEN EnergyParticle_update(energyParticles[id], params, Lx, Ly,
                                         CentreDraw, CentreDraw)
              ELSE energyParticles[id]]

Move ==
    /\ At("move")
    /\ (MoveFixed \/ MoveDiscovery)
    /\ trace' = Append(trace, "move")
    /\ Advance
    /\ UNCHANGED <<mode, params, Lx, Ly, reactionCatalog, frameCount, nextId,
                   totalReactions, locals, initialized, lastOp, rxLog,
                   reactStart>>
    /\ UNCHANGED <<worker, scaffold, probe>>

(* ------------------------------ inflow --------------------------------- *)

energyInflowPerTick == 2

\* The carriers handleEnergyInflow() creates in one call.
InflowCount(m, p) ==
    IF m = "fixed" THEN energyInflowPerTick ELSE Iterations(p.energyInflowRate)

\* Math.random() * 20 and Math.random() * this.Ly of a new carrier.
InflowXDraws == {<<1, 2>>}
InflowYDraws == {<<1, 2>>, <<0, 1>>}
\* The y draws of one call: its first carrier draws freely, the others 1/2.
InflowYVectors(n) ==
    {uy \in [1..n -> InflowYDraws] : \A k \in 2..n : uy[k] = <<1, 2>>}

\* handleEnergyInflow(), uy[k] the y draw of its k-th carrier.
handleEnergyInflow(es, nid, n, ux, uy, ly) ==
    [id \in DOMAIN es \cup nid..(nid + n - 1) |->
        IF id \in nid..(nid + n - 1)
        THEN EnergyParticle(Mul(20, ux[id - nid + 1]), Mul(ly, uy[id - nid + 1]))
        ELSE es[id]]

Inflow ==
    /\ At("inflow")
    /\ LET n == InflowCount(mode, params)
       IN  /\ \E ux \in [1..n -> InflowXDraws], uy \in InflowYVectors(n) :
                energyParticles' =
                    handleEnergyInflow(energyParticles, nextId, n, ux, uy, Ly)
           /\ nextId' = nextId + n
    /\ trace' = Append(trace, "inflow")
    /\ Advance
    /\ UNCHANGED <<mode, params, Lx, Ly, particles, reactionCatalog, frameCount,
                   totalReactions, locals, initialized, lastOp, rxLog,
                   reactStart>>
    /\ UNCHANGED <<worker, scaffold, probe>>

(* ----------------------------- reactions ------------------------------- *)

\* The reaction radius of each engine.
reactionRadius(m, p) ==
    IF m = "fixed" THEN p.particleRadius * p.reactionDistanceInR
    ELSE p.reactionRadius

\* Draws of attemptReaction (discovery, execution), of discoverNewReaction
\* (product types, catalyst, efficiency) and of createProduct (angle, offset).
DiscoveryDraws == {<<0, 1>>, <<99, 100>>}
ExecutionDraws == {<<0, 1>>, <<99, 100>>}
\* The draws of the two product types of one discovered reaction.
ProductTypeDraws == {<<<<0, 1>>, <<0, 1>>>>, <<<<1, 5>>, <<0, 1>>>>}
CatalystDraws == {<<0, 1>>, <<1, 2>>}
NewEfficiencyDraws == {<<9, 10>>}
\* The angle draws of the two createProduct calls of one reaction.
ProductAngleDraws == {<<<<0, 1>>, <<1, 2>>>>, <<<<1, 2>>, <<1, 2>>>>}
ProductOffsetDraw == <<0, 1>>

substrateTypes ==
    <<ParticleType_A, ParticleType_B, ParticleType_C, ParticleType_D,
      ParticleType_E>>

\* discoverNewReaction with the efficiency drawn as rand * 0.6 + 0.1.
discoverNewReactionWideEfficiency(type1, type2, u1, u2, uc, ue) ==
    Reaction(type1, type2,
             IF 2 * uc[1] < uc[2] THEN type1 ELSE type2,
             substrateTypes[(u1[1] * Len(substrateTypes)) \div u1[2] + 1],
             substrateTypes[(u2[1] * Len(substrateTypes)) \div u2[2] + 1],
             (ue[1] * 60) \div ue[2] + 10)

\* discoverNewReaction(type1, type2): u1, u2 the product draws, uc the
\* catalyst draw, ue the efficiency draw.
discoverNewReaction(type1, type2, u1, u2, uc, ue) ==
    Reaction(type1, type2,
             IF 2 * uc[1] < uc[2] THEN type1 ELSE type2,
             substrateTypes[(u1[1] * Len(substrateTypes)) \div u1[2] + 1],
             substrateTypes[(u2[1] * Len(substrateTypes)) \div u2[2] + 1],
             (ue[1] * 50) \div ue[2] + 10)

\* createProduct: how far from the catalyst a product is put.
productDistance(m, p, u) ==
    IF m = "fixed" THEN (p.particleRadius * (3 * u[2] + 4 * u[1])) \div u[2]
    ELSE (p.particleDiameter * (u[2] + u[1])) \div u[2]

\* The catalyst of executeReaction, and the reactant it consumes.
catalystOf(ps, p1, p2, reaction) ==
    IF ps[p1].type = reaction.catalyst THEN p1 ELSE p2
reactantOf(ps, p1, p2, reaction) ==
    IF ps[p1].type = reaction.catalyst THEN p2 ELSE p1

\* createProduct(productType), a the angle draw.
createProduct(m, p, cat, productType, a) ==
    LET distance == productDistance(m, p, ProductOffsetDraw)
    IN  SubstrateParticle(cat.x + Cos(a) * distance, cat.y + Sin(a) * distance,
                          productType, InitialLifespan(m, p))

\* executeReaction with createProduct storing each product under the id
\* before the counter's current value.
executeReactionStaleIds(m, p, ps, p1, p2, reaction, nid, a1, a2) ==
    LET catalyst == catalystOf(ps, p1, p2, reaction)
        reactant == reactantOf(ps, p1, p2, reaction)
        consumed == [ps EXCEPT ![reactant].active = FALSE]
        new1 == createProduct(m, p, consumed[catalyst], reaction.product1, a1)
        new2 == createProduct(m, p, consumed[catalyst], reaction.product2, a2)
        stored == MapSet(MapSet(consumed, nid - 1, new1), nid, new2)
    IN  [stored EXCEPT ![catalyst].energy = Min(100, @ + 50),
                       ![nid - 1].energy = 100,
                       ![nid].energy = 100]

\* executeReaction without "reactant.active = false".
executeReactionKeepingReactant(m, p, ps, p1, p2, reaction, nid, a1, a2) ==
    LET catalyst == catalystOf(ps, p1, p2, reaction)
        new1 == createProduct(m, p, ps[catalyst], reaction.product1, a1)
        new2 == createProduct(m, p, ps[catalyst], reaction.product2, a2)
        stored == MapSet(MapSet(ps, nid, new1), nid + 1, new2)
    IN  [stored EXCEPT ![catalyst].energy = Min(100, @ + 50),
                       ![nid].energy = 100,
                       ![nid + 1].energy = 100]

\* executeReaction with "catalyst.energy += 0.5" for the boost.
executeReactionUncapped(m, p, ps, p1, p2, reaction, nid, a1, a2) ==
    LET catalyst == catalystOf(ps, p1, p2, reaction)
        reactant == reactantOf(ps, p1, p2, reaction)
        consumed == [ps EXCEPT ![reactant].active = FALSE]
        new1 == createProduct(m, p, consumed[catalyst], reaction.product1, a1)
        new2 == createProduct(m, p, consumed[catalyst], reaction.product2, a2)
        stored == MapSet(MapSet(consumed, nid, new1), nid + 1, new2)
    IN  [stored EXCEPT ![catalyst].energy = @ + 50,
                       ![nid].energy = 100,
                       ![nid + 1].energy = 100]

\* The substrate store executeReaction leaves: the reactant consumed, the
\* two products stored under nid and nid + 1, the intensities set.
executeReaction(m, p, ps, p1, p2, reaction, nid, a1, a2) ==
    LET catalyst == catalystOf(ps, p1, p2, reaction)
        reactant == reactantOf(ps, p1, p2, reaction)
        consumed == [ps EXCEPT ![reactant].active = FALSE]
        new1 == createProduct(m, p, consumed[catalyst], reaction.product1, a1)
        new2 == createProduct(m, p, consumed[catalyst], reaction.product2, a2)
        stored == MapSet(MapSet(consumed, nid, new1), nid + 1, new2)
    IN  [stored EXCEPT ![catalyst].energy = Min(100, @ + 50),
                       ![nid].energy = 100,
                       ![nid + 1].energy = 100]

\* const activeEnergy = Array.from(this.energyParticles.values()).filter(...)
ActiveEnergyIds(es) == SelectSeq(SortedIds(DOMAIN es), LAMBDA id : es[id].active)

\* The inner loop without "if (!energy.active) continue".
IsDonorIgnoringActive(ps, es, p1, e, R) ==
    HypotLess(ps[p1].x - es[e].x, ps[p1].y - es[e].y, R)

\* The donors the inner loop of processReactionsAndDiscovery can stop at
\* for p1: the carriers of the snapshot that are active now and near p1.
IsDonor(ps, es, p1, e, R) ==
    /\ es[e].active
    /\ HypotLess(ps[p1].x - es[e].x, ps[p1].y - es[e].y, R)

\* The carrier the loop stops at, in a one-element sequence; <<>> if none.
findDonor(ps, es, p1, candidates, R) ==
    LET ok == SelectSeq(candidates, LAMBDA e : IsDonor(ps, es, p1, e, R))
    IN  IF ok = <<>> THEN <<>> ELSE <<Head(ok)>>

\* The loop indices after pair (i, j) of n particles; <<0, 0>> when the
\* loops are over.
NextPair(a, b, n) ==
    IF b < n THEN <<a, b + 1>>
    ELSE IF a + 1 < n THEN <<a + 1, a + 2>>
    ELSE <<0, 0>>

\* What the history keeps of one attemptReaction call.
LogEntry(p1, p2, e, executed, reactant) ==
    [p1 |-> p1, p2 |-> p2, donor |-> e,
     products |-> IF executed THEN {nextId, nextId + 1} ELSE {},
     p1Active |-> particles[p1].active, p2Active |-> particles[p2].active,
     donorActive |-> energyParticles[e].active,
     executed |-> executed,
     reactant |-> reactant,
     reactantActive |-> IF executed THEN particles[reactant].active ELSE FALSE]

\* attemptReaction consuming the donor although it does not execute.
NotExecutedConsumingDonor(p1, p2, e, catalog) ==
    /\ reactionCatalog' = catalog
    /\ rxLog' = Append(rxLog, LogEntry(p1, p2, e, FALSE, p1))
    /\ energyParticles' = [energyParticles EXCEPT ![e].active = FALSE]
    /\ UNCHANGED <<particles, nextId, totalReactions>>

\* attemptReaction decided not to execute: nothing but the catalog changes.
NotExecuted(p1, p2, e, catalog) ==
    /\ reactionCatalog' = catalog
    /\ rxLog' = Append(rxLog, LogEntry(p1, p2, e, FALSE, p1))
    /\ UNCHANGED <<particles, energyParticles, nextId, totalReactions>>

\* "Reaction Execution" of attemptReaction, for the reaction found or made.
Execution(p1, p2, e, reaction, catalog) ==
    \E ux \in ExecutionDraws :
        IF RandomBelow(ux, reaction.efficiency)
        THEN /\ reactionCatalog' = catalog
             /\ energyParticles' = [energyParticles EXCEPT ![e].active = FALSE]
             /\ totalReactions' = totalReactions + 1
             /\ \E a \in ProductAngleDraws :
                    particles' = executeReaction(mode, params, particles, p1, p2,
                                                 reaction, nextId, a[1], a[2])
             /\ nextId' = nextId + 2
             /\ rxLog' = Append(rxLog,
                    LogEntry(p1, p2, e, TRUE,
                             reactantOf(particles, p1, p2, reaction)))
        ELSE NotExecuted(p1, p2, e, catalog)

\* The fixed engine's attemptReaction with the discovery engine's "if
\* (!reaction)" branch in place of its early return.
attemptReactionDiscoveringInFixed(p1, p2, e) ==
    LET key == getReactionKey(particles[p1].type, particles[p2].type)
    IN  IF key \in DOMAIN reactionCatalog
        THEN Execution(p1, p2, e, reactionCatalog[key], reactionCatalog)
        ELSE \E ud \in DiscoveryDraws :
               IF RandomBelow(ud, params.reactionDiscoveryProbability)
               THEN \E u \in ProductTypeDraws,
                       uc \in CatalystDraws, ue \in NewEfficiencyDraws :
                      LET reaction ==
                              discoverNewReaction(particles[p1].type,
                                  particles[p2].type, u[1], u[2], uc, ue)
                      IN  Execution(p1, p2, e, reaction,
                                    MapSet(reactionCatalog, key, reaction))
               ELSE NotExecuted(p1, p2, e, reactionCatalog)

\* The discovery engine's attemptReaction without its "if (!reaction)"
\* test: a reaction is drawn and stored whether or not the pair has one.
attemptReactionRediscovering(p1, p2, e) ==
    LET key == getReactionKey(particles[p1].type, particles[p2].type)
    IN  IF mode = "fixed"
        THEN IF key \in DOMAIN reactionCatalog
             THEN Execution(p1, p2, e, reactionCatalog[key], reactionCatalog)
             ELSE NotExecuted(p1, p2, e, reactionCatalog)
        ELSE \E ud \in DiscoveryDraws :
               IF RandomBelow(ud, params.reactionDiscoveryProbability)
               THEN \E u \in ProductTypeDraws,
                       uc \in CatalystDraws, ue \in NewEfficiencyDraws :
                      LET reaction ==
                              discoverNewReaction(particles[p1].type,
                                  particles[p2].type, u[1], u[2], uc, ue)
                      IN  Execution(p1, p2, e, reaction,
                                    MapSet(reactionCatalog, key, reaction))
               ELSE IF key \in DOMAIN reactionCatalog
               THEN Execution(p1, p2, e, reactionCatalog[key], reactionCatalog)
               ELSE NotExecuted(p1, p2, e, reactionCatalog)

\* attemptReaction(p1, p2, energy)
attemptReaction(p1, p2, e) ==
    LET key == getReactionKey(particles[p1].type, particles[p2].type)
    IN  IF key \in DOMAIN reactionCatalog
        THEN Execution(p1, p2, e, reactionCatalog[key], reactionCatalog)
        ELSE IF mode = "fixed"
        THEN NotExecuted(p1, p2, e, reactionCatalog)
        ELSE \E ud \in DiscoveryDraws :
               IF RandomBelow(ud, params.reactionDiscoveryProbability)
               THEN \E u \in ProductTypeDraws,
                       uc \in CatalystDraws, ue \in NewEfficiencyDraws :
                      LET reaction ==
                              discoverNewReaction(particles[p1].type,
                                  particles[p2].type, u[1], u[2], uc, ue)
                      IN  Execution(p1, p2, e, reaction,
                                    MapSet(reactionCatalog, key, reaction))
               ELSE NotExecuted(p1, p2, e, reactionCatalog)

\* The pair (a, b) reaches attemptReaction: the two are near and the inner
\* loop finds a donor.
Attempts(ps, es, aP, aE, R, a, b) ==
    /\ HypotLess(ps[aP[a]].x - ps[aP[b]].x, ps[aP[a]].y - ps[aP[b]].y, R)
    /\ findDonor(ps, es, aP[a], aE, R) # <<>>

\* The first pair from (a, b) on, in loop order, that reaches
\* attemptReaction; <<0, 0>> if none does.  The iterations before it change
\* nothing.
RECURSIVE FirstAttempt(_, _, _, _, _, _, _)
FirstAttempt(ps, es, aP, aE, R, a, b) ==
    IF a = 0 THEN <<0, 0>>
    ELSE IF Attempts(ps, es, aP, aE, R, a, b) THEN <<a, b>>
    ELSE LET next == NextPair(a, b, Len(aP))
         IN  FirstAttempt(ps, es, aP, aE, R, next[1], next[2])

\* processReactionsAndDiscovery, up to its first attemptReaction call: the
\* two snapshots, the return when fewer than two substrate particles are
\* active, and the iterations that attempt nothing.
ReactBegin ==
    /\ At("react")
    /\ i = 0
    /\ trace' = Append(trace, "react")
    /\ LET aP == ActiveIds(particles)
           aE == ActiveEnergyIds(energyParticles)
           first == IF Len(aP) < 2 THEN <<0, 0>>
                    ELSE FirstAttempt(particles, energyParticles, aP, aE,
                                      reactionRadius(mode, params), 1, 2)
       IN  IF first = <<0, 0>>
           THEN Advance /\ UNCHANGED locals
           ELSE /\ activeParticles' = aP
                /\ activeEnergy' = aE
                /\ i' = first[1]
                /\ j' = first[2]
                /\ pc' = pc
    /\ reactStart' = [ps |-> particles, es |-> energyParticles]
    /\ UNCHANGED <<mode, params, Lx, Ly, engine, initialized, lastOp, rxLog>>
    /\ UNCHANGED <<worker, scaffold, probe>>

\* ReactPair with the loops running over the store as it is after each
\* attemptReaction call, not over the array filtered before the first one.
ReactPairOverStore ==
    /\ At("react")
    /\ i > 0
    /\ LET p1 == activeParticles[i]
           p2 == activeParticles[j]
           R == reactionRadius(mode, params)
           donor == findDonor(particles, energyParticles, p1, activeEnergy, R)
       IN  /\ attemptReaction(p1, p2, donor[1])
           /\ LET live == ActiveIds(particles')
                  after == NextPair(i, j, Len(live))
                  next == FirstAttempt(particles', energyParticles',
                              live, activeEnergy, R, after[1], after[2])
              IN  IF next = <<0, 0>>
                  THEN /\ Advance
                       /\ activeParticles' = <<>>
                       /\ activeEnergy' = <<>>
                       /\ i' = 0
                       /\ j' = 0
                  ELSE /\ i' = next[1]
                       /\ j' = next[2]
                       /\ activeParticles' = live
                       /\ UNCHANGED <<pc, activeEnergy>>
    /\ frameCount' = frameCount
    /\ UNCHANGED <<mode, params, Lx, Ly, initialized, lastOp, trace,
                   reactStart>>
    /\ UNCHANGED <<worker, scaffold, probe>>

\* The attemptReaction call of the pair (activeParticles[i],
\* activeParticles[j]), and the iterations up to the next call or to the
\* end of the loops.
ReactPair ==
    /\ At("react")
    /\ i > 0
    /\ LET p1 == activeParticles[i]
           p2 == activeParticles[j]
           R == reactionRadius(mode, params)
           donor == findDonor(particles, energyParticles, p1, activeEnergy, R)
           after == NextPair(i, j, Len(activeParticles))
       IN  /\ attemptReaction(p1, p2, donor[1])
           /\ LET next == FirstAttempt(particles', energyParticles',
                              activeParticles, activeEnergy, R,
                              after[1], after[2])
              IN  IF next = <<0, 0>>
                  THEN /\ Advance
                       /\ activeParticles' = <<>>
                       /\ activeEnergy' = <<>>
                       /\ i' = 0
                       /\ j' = 0
                  ELSE /\ i' = next[1]
                       /\ j' = next[2]
                       /\ UNCHANGED <<pc, activeParticles, activeEnergy>>
    /\ frameCount' = frameCount
    /\ UNCHANGED <<mode, params, Lx, Ly, initialized, lastOp, trace,
                   reactStart>>
    /\ UNCHANGED <<worker, scaffold, probe>>

(* ------------------------------ cleanup -------------------------------- *)

\* cleanupInactiveParticles: the substrate store it leaves.
cleanupSubstrate(ps) ==
    [id \in {k \in DOMAIN ps : ps[k].active} |->
        [ps[id] EXCEPT !.energy = Max(0, @ - 5)]]

\* cleanupInactiveParticles without its second loop: the energy store is
\* left as it was.
cleanupEnergySkipped(es) == es

\* cleanupInactiveParticles: the energy store it leaves.
cleanupEnergy(es) == [id \in {k \in DOMAIN es : es[k].active} |-> es[id]]

Cleanup ==
    /\ At("cleanup")
    /\ particles' = cleanupSubstrate(particles)
    /\ energyParticles' = cleanupEnergy(energyParticles)
    /\ trace' = Append(trace, "cleanup")
    /\ Advance
    /\ UNCHANGED <<mode, params, Lx, Ly, reactionCatalog, frameCount, nextId,
                   totalReactions, locals, initialized, lastOp, rxLog,
                   reactStart>>
    /\ UNCHANGED <<worker, scaffold, probe>>

(* ----------------------------- exportState ----------------------------- *)

\* exportState() with "new Float32Array(totalParticles)" for the positions:
\* a typed array drops the writes past its end.
exportStateShortPositions(ps, es, m) ==
    LET aP == ActiveIds(ps)
        aE == ActiveEnergyIds(es)
        total == Len(aP) + Len(aE)
        at(k) == IF k <= Len(aP) THEN ps[aP[k]] ELSE es[aE[k - Len(aP)]]
    IN  [positions |-> [k \in 1..total |->
                           IF k % 2 = 1 THEN at((k + 1) \div 2).x
                           ELSE at(k \div 2).y],
         types |-> [k \in 1..total |->
                       IF k <= Len(aP) THEN at(k).type ELSE ParticleType_Energy(m)],
         energies |-> [k \in 1..total |->
                          IF k <= Len(aP) THEN at(k).energy ELSE 100]]

\* exportState() filling the buffers with the energy carriers first and the
\* substrate particles after them.
exportStateCarriersFirst(ps, es, m) ==
    LET aP == ActiveIds(ps)
        aE == ActiveEnergyIds(es)
        total == Len(aP) + Len(aE)
        at(k) == IF k <= Len(aE) THEN es[aE[k]] ELSE ps[aP[k - Len(aE)]]
    IN  [positions |-> [k \in 1..(total * 2) |->
                           IF k % 2 = 1 THEN at((k + 1) \div 2).x
                           ELSE at(k \div 2).y],
         types |-> [k \in 1..total |->
                       IF k <= Len(aE) THEN ParticleType_Energy(m) ELSE at(k).type],
         energies |-> [k \in 1..total |->
                          IF k <= Len(aE) THEN 100 ELSE at(k).energy]]

\* exportState(): the three buffers, each a sequence (index k here is index
\* k - 1 there).  Active substrate particles come first, then the active
\* energy carriers, both in store order.
exportState(ps, es, m) ==
    LET aP == ActiveIds(ps)
        aE == ActiveEnergyIds(es)
        total == Len(aP) + Len(aE)
        at(k) == IF k <= Len(aP) THEN ps[aP[k]] ELSE es[aE[k - Len(aP)]]
    IN  [positions |-> [k \in 1..(total * 2) |->
                           IF k % 2 = 1 THEN at((k + 1) \div 2).x
                           ELSE at(k \div 2).y],
         types |-> [k \in 1..total |->
                       IF k <= Len(aP) THEN at(k).type ELSE ParticleType_Energy(m)],
         energies |-> [k \in 1..total |->
                          IF k <= Len(aP) THEN at(k).energy ELSE 100]]

\* The reduce of exportState() counting every stored particle of the type,
\* the inactive ones included.
countsOfStore(ps, type) ==
    Cardinality({id \in DOMAIN ps : ps[id].type = type})

\* counts[type] || 0 of exportState(): the number of active substrate
\* particles of the type.
counts(ps, type) ==
    Cardinality({k \in 1..Len(ActiveIds(ps)) : ps[ActiveIds(ps)[k]].type = type})

\* The stats record of exportState().  The fixed-catalog engine reports
\* A, B, C, D and Binder, the discovery engine A to E and two rates that
\* are always 0.
stats(ps, es, m, catalog, fc, tr) ==
    IF m = "fixed"
    THEN [frameCount |-> fc,
          particleCountA |-> counts(ps, ParticleType_A),
          particleCountB |-> counts(ps, ParticleType_B),
          particleCountC |-> counts(ps, ParticleType_C),
          particleCountD |-> counts(ps, ParticleType_D),
          particleCountBinder |-> counts(ps, ParticleType_Binder),
          energyParticleCount |-> Len(ActiveEnergyIds(es)),
          totalReactions |-> tr,
          discoveredReactions |-> Cardinality(DOMAIN catalog)]
    ELSE [frameCount |-> fc,
          particleCountA |-> counts(ps, ParticleType_A),
          particleCountB |-> counts(ps, ParticleType_B),
          particleCountC |-> counts(ps, ParticleType_C),
          particleCountD |-> counts(ps, ParticleType_D),
          particleCountE |-> counts(ps, ParticleType_E),
          energyParticleCount |-> Len(ActiveEnergyIds(es)),
          totalReactions |-> tr,
          discoveredReactions |-> Cardinality(DOMAIN catalog),
          reactionRateA |-> 0,
          reactionRateB |-> 0]

(* ------------------------------- Next ---------------------------------- *)

Next ==
    \/ Initialize
    \/ Reset
    \/ UpdateParams
    \/ Step
    \/ IncrementFrame
    \/ Move
    \/ Inflow
    \/ ReactBegin
    \/ ReactPair
    \/ Cleanup

Spec == Init /\ [][Next]_vars

(* ---------------------- the end-to-end scenario ------------------------ *)

\* The catalog entry of the scenario: A + B, catalyst A, products (A, A),
\* efficiency 1.0.
E2EReaction ==
    Reaction(ParticleType_A, ParticleType_B, ParticleType_A, ParticleType_A,
             ParticleType_A, 100)

\* Substrate a, substrate b and carrier e are mutually within R.
MutuallyNear(ps, es, a, b, e, R) ==
    /\ HypotLess(ps[a].x - ps[b].x, ps[a].y - ps[b].y, R)
    /\ HypotLess(ps[a].x - es[e].x, ps[a].y - es[e].y, R)
    /\ HypotLess(ps[b].x - es[e].x, ps[b].y - es[e].y, R)

\* Where the scenario puts its particles along x, and the lifespans it
\* configures.
E2ESubstrateXs == {8, 12, 16}
E2EEnergyXs == {6, 10}
E2ELifespans == {1, 2}

\* The scenario's engine: constructed for one A, one B and one carrier,
\* initialized (A is id 0, B id 1, the carrier id 2), and its catalog's
\* A + B entry set to E2EReaction.  The code has no public way to set an
\* entry (the fixed catalog is hard-coded at efficiency 0.5, a discovered
\* entry is below 0.6): the scenario writes the private Map.
InitE2E ==
    /\ mode \in Modes
    /\ \E l \in E2ELifespans :
          params = [ConstructorParams(mode) EXCEPT !.particleCountA = 1,
                                                   !.particleLifespan = l]
    /\ Lx = params.Lx
    /\ Ly = params.Ly
    /\ \E xa \in E2ESubstrateXs, xb \in E2ESubstrateXs :
          /\ xa < xb
          /\ particles =
                (0 :> SubstrateParticle(xa, Ly \div 2, ParticleType_A,
                                        InitialLifespan(mode, params))
                 @@ 1 :> SubstrateParticle(xb, Ly \div 2, ParticleType_B,
                                           InitialLifespan(mode, params)))
    /\ \E xe \in E2EEnergyXs :
          energyParticles = (2 :> EnergyParticle(xe, Ly \div 2))
    /\ MutuallyNear(particles, energyParticles, 0, 1, 2,
                    reactionRadius(mode, params))
    /\ reactionCatalog =
          MapSet(IF mode = "fixed" THEN seedFixedReactions ELSE EmptyMap,
                 getReactionKey(ParticleType_A, ParticleType_B), E2EReaction)
    /\ frameCount = 0
    /\ nextId = 3
    /\ totalReactions = 0
    /\ pc = 0
    /\ activeParticles = <<>>
    /\ activeEnergy = <<>>
    /\ i = 0
    /\ j = 0
    /\ initialized = TRUE
    /\ lastOp = "initialize"
    /\ trace = <<>>
    /\ rxLog = <<>>
    /\ reactStart = NoStores
    /\ worker = WorkerLoaded
    /\ scaffold = ScaffoldAbsent
    /\ probe = NoProbe

NextE2E ==
    \/ Step
    \/ IncrementFrame
    \/ Move
    \/ Inflow
    \/ ReactBegin
    \/ ReactPair
    \/ Cleanup

SpecE2E == InitE2E /\ [][NextE2E]_vars

(* ------------------------------ claims --------------------------------- *)

ActiveCount(store) == Cardinality({id \in DOMAIN store : store[id].active})

\* The attemptReaction calls of the log that executed their reaction.
Executed == {k \in DOMAIN rxLog : rxLog[k].executed}

\* The intensity exportState() reports for the substrate particle id.
ExportedIntensity(id) ==
    LET aP == ActiveIds(particles)
        k == CHOOSE n \in 1..Len(aP) : aP[n] = id
    IN  exportState(particles, energyParticles, mode).energies[k]

\* C1: every executed reaction consumes one carrier and one reactant that
\* were active just before it, and when the reaction phase is over the live
\* substrate count has risen, and the live carrier count has fallen, by the
\* number of reactions executed.
C1_ReactionConservation ==
    /\ \A k \in Executed : rxLog[k].donorActive /\ rxLog[k].reactantActive
    /\ At("cleanup") =>
          /\ ActiveCount(particles) =
                ActiveCount(reactStart.ps) + Cardinality(Executed)
          /\ ActiveCount(energyParticles) =
                ActiveCount(reactStart.es) - Cardinality(Executed)

\* C2: both substrate particles of every attemptReaction call are active
\* when the call is made.
C2_PairsActiveAtAttempt ==
    \A k \in DOMAIN rxLog : rxLog[k].p1Active /\ rxLog[k].p2Active

\* C3: a donor is active when its reaction executes and inactive from then
\* to the end of the tick, no two executed reactions of a tick share a
\* donor, and a tick executes no more reactions than there were active
\* carriers when its reaction phase began.
C3_DonorPowersOneReaction ==
    /\ \A k \in Executed : rxLog[k].donorActive
    /\ (At("react") \/ At("cleanup")) =>
          \A k \in Executed : ~energyParticles[rxLog[k].donor].active
    /\ \A a, b \in Executed : a # b => rxLog[a].donor # rxLog[b].donor
    /\ Cardinality(Executed) <= ActiveCount(reactStart.es)

\* A later pair of the same tick whose first particle is within the radius
\* of a donor consumed before it, and which took another donor.
C3_ConsumedDonorSkipped ==
    /\ At("cleanup")
    /\ \E a, b \in DOMAIN rxLog :
          /\ a < b
          /\ rxLog[a].executed
          /\ rxLog[b].executed
          /\ IsDonorIgnoringActive(particles, energyParticles, rxLog[b].p1,
                                   rxLog[a].donor, reactionRadius(mode, params))
          /\ rxLog[b].donor # rxLog[a].donor

\* C4: in every state, the buffers of exportState() satisfy
\* positions.length = 2 * types.length = 2 * energies.length, and
\* types.length is the number of active substrate particles plus the number
\* of active energy carriers.
C4_ExportLengths ==
    LET s == exportState(particles, energyParticles, mode)
    IN  /\ Len(s.positions) = 2 * Len(s.types)
        /\ Len(s.positions) = 2 * Len(s.energies)
        /\ Len(s.types) = ActiveCount(particles) + ActiveCount(energyParticles)

\* A step() has returned after executing a reaction, with substrate
\* particles and carriers to export.
C4_ExportAfterReaction ==
    /\ pc = 0
    /\ lastOp = "step"
    /\ totalReactions > 0
    /\ ActiveCount(particles) >= 3
    /\ ActiveCount(energyParticles) >= 1

\* What the end-to-end scenario expects of its one step(): B gone from the
\* store and from the export, the carrier gone, two new active A particles,
\* one reaction counted.
E2EOutcome ==
    LET new == DOMAIN particles \ {0, 1}
        s == exportState(particles, energyParticles, mode)
    IN  /\ 1 \notin DOMAIN particles
        /\ \A k \in DOMAIN s.types : s.types[k] # ParticleType_B
        /\ 2 \notin DOMAIN energyParticles
        /\ Cardinality(new) = 2
        /\ \A id \in new :
              particles[id].type = ParticleType_A /\ particles[id].active
        /\ totalReactions = 1

\* The scenario's A, B and carrier were active and mutually within the
\* reaction radius when the reaction phase of the step began.
E2ENearAtReaction ==
    /\ {0, 1} \subseteq DOMAIN reactStart.ps
    /\ 2 \in DOMAIN reactStart.es
    /\ reactStart.ps[0].active
    /\ reactStart.ps[1].active
    /\ reactStart.es[2].active
    /\ MutuallyNear(reactStart.ps, reactStart.es, 0, 1, 2,
                    reactionRadius(mode, params))

\* C5, as stated: the scenario's particles are mutually within the reaction
\* radius before the step (InitE2E), and after the one step() the outcome
\* is there.
C5_EndToEnd ==
    (pc = 0 /\ frameCount = 1) => E2EOutcome

\* C5, amended: if the scenario's A, B and carrier are still active and
\* mutually within the reaction radius when the step's reaction phase
\* begins, i.e. after its motion and inflow, then after the step() the
\* outcome is there.
C5_EndToEndAtReaction ==
    (pc = 0 /\ frameCount = 1 /\ E2ENearAtReaction) => E2EOutcome

\* The scenario's step() has returned and its reaction phase found the
\* three particles active and near.
C5_ReactedInScenario ==
    pc = 0 /\ frameCount = 1 /\ E2ENearAtReaction /\ totalReactions = 1

\* C6: after a step() has returned, exportState().energies holds 1.0 for
\* both products of every reaction the step executed.
C6_ProductsFullIntensity ==
    (pc = 0 /\ lastOp = "step") =>
        \A k \in Executed : \A id \in rxLog[k].products :
            /\ id \in DOMAIN particles
            /\ particles[id].active
            /\ ExportedIntensity(id) = 100

\* C7, amended: the statements of a step() run in the order frame counter
\* increment, motion, inflow, reactions, cleanup, and a step() that has
\* returned has run all five.
C7_FrameFirstThenPhases ==
    /\ trace = SubSeq(<<"frame", "move", "inflow", "react", "cleanup">>,
                      1, Len(trace))
    /\ (pc = 0 /\ lastOp = "step") => Len(trace) = 5
    /\ (pc > 1 /\ initialized) => frameCount > 0

\* A step() that executed a reaction has returned.
C7_StepReturned ==
    pc = 0 /\ lastOp = "step" /\ Len(trace) = 5 /\ totalReactions > 0

\* C7, as stated: motion, inflow, reactions, cleanup, and the frame counter
\* incremented after cleanup.
C7_FrameAfterCleanup ==
    /\ trace = SubSeq(<<"move", "inflow", "react", "cleanup", "frame">>,
                      1, Len(trace))
    /\ (pc = 0 /\ lastOp = "step") => Len(trace) = 5

\* C8: as long as initialize() has not been called, step() changes nothing:
\* the frame counter is 0, both stores are empty and no id has been given.
C8_StepBeforeInitializeIsNoOp ==
    ~initialized =>
        /\ frameCount = 0
        /\ particles = EmptyMap
        /\ energyParticles = EmptyMap
        /\ nextId = 0

\* The live substrate particles of one type.
LiveOfType(type) ==
    Cardinality({id \in DOMAIN particles :
                    particles[id].active /\ particles[id].type = type})

\* C9: right after reset() the frame count and the reaction count are 0,
\* the live count of each seeded type is its configured count, the live
\* carrier count is energyParticleCount, every substrate particle is fresh
\* (no intensity, full lifespan), and the catalog is the seed set: the ten
\* fixed entries, or empty in the discovery engine.
C9_ResetReturnsToSeededState ==
    lastOp = "reset" =>
        /\ frameCount = 0
        /\ totalReactions = 0
        /\ \A k \in DOMAIN SeededTypes(mode) :
              LiveOfType(SeededTypes(mode)[k]) = SeedCounts(mode, params)[k]
        /\ ActiveCount(energyParticles) = params.energyParticleCount
        /\ \A id \in DOMAIN particles :
              /\ particles[id].energy = 0
              /\ particles[id].lifespan = InitialLifespan(mode, params)
        /\ reactionCatalog =
              IF mode = "fixed" THEN seedFixedReactions ELSE EmptyMap
        /\ mode = "fixed" => Cardinality(DOMAIN reactionCatalog) = 10

\* The parameters a validating engine would accept: a positive radius and
\* counts that are not negative.
ValidParams(p) ==
    /\ p.particleRadius > 0
    /\ p.particleCountA >= 0
    /\ p.particleCountB >= 0
    /\ p.energyParticleCount >= 0

\* C10: the engine is constructed with valid parameters and rejects every
\* invalid update, so the parameters it holds are always valid.
C10_InvalidParamsRejected == ValidParams(params)

\* C13: no id is held by a substrate particle and an energy carrier at
\* once, every id in either store was given out by the counter since the
\* last initialize(), and the two products of every executed reaction sit
\* in the store under two ids of their own until cleanup.
C13_IdsUnique ==
    /\ DOMAIN particles \cap DOMAIN energyParticles = {}
    /\ \A id \in DOMAIN particles \cup DOMAIN energyParticles :
          0 <= id /\ id < nextId
    /\ (At("react") \/ At("cleanup")) =>
          /\ \A k \in Executed :
                /\ Cardinality(rxLog[k].products) = 2
                /\ rxLog[k].products \subseteq DOMAIN particles
                /\ rxLog[k].products \cap DOMAIN reactStart.ps = {}
          /\ \A a, b \in Executed :
                a # b => rxLog[a].products \cap rxLog[b].products = {}

\* Seeded particles, carriers of the inflow and products of a reaction are
\* live together after a step().
C13_SeedsInflowAndProductsLive ==
    /\ pc = 0
    /\ lastOp = "step"
    /\ initialized
    /\ totalReactions > 0
    /\ \E a \in DOMAIN particles, b \in DOMAIN particles, e \in DOMAIN energyParticles :
          a < e /\ e < b

\* Every tag of either engine's ParticleType enum.
ParticleTypes == 0 .. ParticleType_Energy("fixed")

\* getReactionKey gives one string to both orders of a pair and different
\* strings to different unordered pairs.
KeySymmetricAndInjective ==
    /\ \A a, b \in ParticleTypes : getReactionKey(a, b) = getReactionKey(b, a)
    /\ \A a, b, c, d \in ParticleTypes :
          getReactionKey(a, b) = getReactionKey(c, d) => {a, b} = {c, d}

\* C15: every catalog entry names one of its two reactants as catalyst and
\* is stored under the key of its own reactant pair, and the key function
\* is symmetric and injective on unordered pairs of tags.
C15_CatalogWellFormed ==
    /\ KeySymmetricAndInjective
    /\ \A k \in DOMAIN reactionCatalog :
          LET r == reactionCatalog[k]
          IN  /\ r.catalyst \in {r.reactant1, r.reactant2}
              /\ k = getReactionKey(r.reactant1, r.reactant2)
              /\ k = getReactionKey(r.reactant2, r.reactant1)

\* A discovered entry whose catalyst is its second reactant is in the
\* catalog, found under the pair given in the other order.
C15_DiscoveredEntryStored ==
    /\ mode = "discovery"
    /\ \E a, b \in ParticleTypes :
          /\ a # b
          /\ getReactionKey(b, a) \in DOMAIN reactionCatalog
          /\ reactionCatalog[getReactionKey(b, a)].reactant1 = a
          /\ reactionCatalog[getReactionKey(b, a)].catalyst = b

\* The key of the pair of the k-th attemptReaction call of the current
\* reaction phase.
LoggedKey(log, k) ==
    getReactionKey(reactStart.ps[log[k].p1].type, reactStart.ps[log[k].p2].type)

\* C16: in the fixed-catalog engine the catalog is the seeded rule set in
\* every state after initialize() (and empty before it), and an
\* attemptReaction call for a pair with no entry leaves both stores, the id
\* counter, the reaction counter and the catalog as they were.
C16_FixedCatalogNoDiscovery ==
    /\ [](mode = "fixed" =>
            reactionCatalog = IF initialized THEN seedFixedReactions ELSE EmptyMap)
    /\ [][(/\ mode = "fixed"
           /\ Len(rxLog') = Len(rxLog) + 1
           /\ LoggedKey(rxLog', Len(rxLog')) \notin DOMAIN reactionCatalog)
          => /\ particles' = particles
             /\ energyParticles' = energyParticles
             /\ nextId' = nextId
             /\ totalReactions' = totalReactions
             /\ reactionCatalog' = reactionCatalog
             /\ ~rxLog'[Len(rxLog')].executed]_vars

\* In the fixed engine a near pair with a donor and no catalog entry went
\* through attemptReaction.
C16_PairWithoutEntryAttempted ==
    /\ mode = "fixed"
    /\ initialized
    /\ At("cleanup")
    /\ \E k \in 1 .. Len(rxLog) :
          /\ LoggedKey(rxLog, k) \notin DOMAIN reactionCatalog
          /\ rxLog[k].donorActive

BaseTypes == {ParticleType_A, ParticleType_B, ParticleType_C, ParticleType_D}

Entries(catalog) == {catalog[k] : k \in DOMAIN catalog}

\* C17: the seeded catalog has, for each base type X, a rule catalysed by X
\* with products (X, X); a rule between two distinct base types with a
\* Binder among its products; and for each X the rule of X and Binder,
\* catalysed by Binder, with products (X, X).
C17_SeededRules ==
    (mode = "fixed" /\ initialized) =>
        /\ \A X \in BaseTypes : \E r \in Entries(reactionCatalog) :
              r.catalyst = X /\ r.product1 = X /\ r.product2 = X
        /\ \E r \in Entries(reactionCatalog) :
              /\ r.reactant1 \in BaseTypes /\ r.reactant2 \in BaseTypes
              /\ r.reactant1 # r.reactant2
              /\ ParticleType_Binder \in {r.product1, r.product2}
        /\ \A X \in BaseTypes :
              /\ getReactionKey(X, ParticleType_Binder) \in DOMAIN reactionCatalog
              /\ LET r == reactionCatalog[getReactionKey(ParticleType_Binder, X)]
                 IN  /\ {r.reactant1, r.reactant2} = {X, ParticleType_Binder}
                     /\ r.catalyst = ParticleType_Binder
                     /\ r.product1 = X /\ r.product2 = X

\* The fixed engine has been initialized and has stepped.
C17_SeededAndStepped ==
    /\ mode = "fixed"
    /\ initialized
    /\ pc = 0
    /\ lastOp = "step"
    /\ Cardinality(DOMAIN reactionCatalog) = Len(SeedReactions)

\* C19: when step() has returned, with the parameters the engine was
\* constructed with, every active particle has 0 <= y < Ly and every active
\* substrate particle has 0 <= x <= Lx, the products of that step's
\* reactions and the carriers of its inflow included.
C19_InBoundsAfterStep ==
    (pc = 0 /\ lastOp = "step" /\ initialized /\ params = ConstructorParams(mode)) =>
        /\ \A id \in DOMAIN particles :
              particles[id].active =>
                  /\ 0 <= particles[id].y /\ particles[id].y < Ly
                  /\ 0 <= particles[id].x /\ particles[id].x <= Lx
        /\ \A id \in DOMAIN energyParticles :
              energyParticles[id].active =>
                  0 <= energyParticles[id].y /\ energyParticles[id].y < Ly

(* ------------------- an engine with a known reaction -------------------- *)

\* The catalogs of an engine whose A-B pair already has its entry: the
\* seeded rule set, or one reaction an earlier tick discovered.
KnownCatalogs(m) ==
    IF m = "fixed" THEN {seedFixedReactions}
    ELSE { MapSet(EmptyMap, getReactionKey(ParticleType_A, ParticleType_B),
                  discoverNewReaction(ParticleType_A, ParticleType_B,
                                      u[1], u[2], uc, ue)) :
             u \in ProductTypeDraws, uc \in CatalystDraws,
             ue \in NewEfficiencyDraws }

\* An initialized engine with one A, one B and one carrier mutually in
\* range, a second carrier that has flowed to the right boundary, and a
\* catalog that has the A-B entry.
InitCatalog ==
    /\ mode \in Modes
    /\ params = [ConstructorParams(mode) EXCEPT !.particleCountA = 1]
    /\ Lx = params.Lx
    /\ Ly = params.Ly
    /\ \E xa \in E2ESubstrateXs, xb \in E2ESubstrateXs :
          /\ xa < xb
          /\ particles =
                (0 :> SubstrateParticle(xa, Ly \div 2, ParticleType_A,
                                        InitialLifespan(mode, params))
                 @@ 1 :> SubstrateParticle(xb, Ly \div 2, ParticleType_B,
                                           InitialLifespan(mode, params)))
    /\ \E xe \in E2EEnergyXs :
          energyParticles = (2 :> EnergyParticle(xe, Ly \div 2)
                             @@ 3 :> EnergyParticle(Lx, Ly \div 2))
    /\ MutuallyNear(particles, energyParticles, 0, 1, 2,
                    reactionRadius(mode, params))
    /\ reactionCatalog \in KnownCatalogs(mode)
    /\ frameCount = 0
    /\ nextId = 4
    /\ totalReactions = 0
    /\ pc = 0
    /\ activeParticles = <<>>
    /\ activeEnergy = <<>>
    /\ i = 0
    /\ j = 0
    /\ initialized = TRUE
    /\ lastOp = "initialize"
    /\ trace = <<>>
    /\ rxLog = <<>>
    /\ reactStart = NoStores
    /\ worker = WorkerLoaded
    /\ scaffold = ScaffoldAbsent
    /\ probe = NoProbe

NextCatalog ==
    \/ UpdateParams
    \/ Step
    \/ IncrementFrame
    \/ Move
    \/ Inflow
    \/ ReactBegin
    \/ ReactPair
    \/ Cleanup

SpecCatalog == InitCatalog /\ [][NextCatalog]_vars

\* C14: over any step of step() or updateParams(), every pair that has a
\* catalog entry keeps it: looking the pair up afterwards, in either
\* argument order, returns the record it had.
C14_CatalogStable ==
    [][\A a, b \in ParticleTypes :
          getReactionKey(a, b) \in DOMAIN reactionCatalog =>
              /\ getReactionKey(b, a) \in DOMAIN reactionCatalog'
              /\ getReactionKey(a, b) \in DOMAIN reactionCatalog'
              /\ reactionCatalog'[getReactionKey(b, a)] =
                    reactionCatalog[getReactionKey(a, b)]
              /\ reactionCatalog'[getReactionKey(a, b)] =
                    reactionCatalog[getReactionKey(a, b)]]_vars

\* The discovery engine has stepped through an attempt on the pair whose
\* entry it already had, after an updateParams().
C14_KnownPairAttemptedAgain ==
    /\ mode = "discovery"
    /\ pc = 0
    /\ lastOp = "step"
    /\ params # ConstructorParams(mode)
    /\ \E k \in 1 .. Len(rxLog) :
          /\ rxLog[k].p1 = 0
          /\ rxLog[k].p2 = 1
    /\ getReactionKey(ParticleType_B, ParticleType_A) \in DOMAIN reactionCatalog

(* ----------------------------- discovery ------------------------------- *)

\* Values of Math.random() in [0, 1): the tenths, and one just below 1.
UnitDraws == {<<n, 10>> : n \in 0 .. 9} \cup {<<99, 100>>}

\* The keys of the unordered pairs of substrate types.
SubstrateKeys ==
    {getReactionKey(a, b) : a \in Range(substrateTypes), b \in Range(substrateTypes)}

\* What discoverNewReaction may return for the pair (a, b): a catalyst out
\* of the pair, two substrate products, an efficiency in [0.1, 0.6).
Discoverable(r, a, b) ==
    /\ r.catalyst \in {a, b}
    /\ r.product1 \in Range(substrateTypes)
    /\ r.product2 \in Range(substrateTypes)
    /\ ParticleType_Energy("discovery") \notin {r.product1, r.product2}
    /\ 10 <= r.efficiency
    /\ r.efficiency < 60

\* discoverNewReaction over the whole range of its four draws.
DiscoverNewReactionInRange ==
    \A a, b \in Range(substrateTypes), u1, u2, uc, ue \in UnitDraws :
        Discoverable(discoverNewReaction(a, b, u1, u2, uc, ue), a, b)

\* C18: the discovery engine adds a reaction only under the key of the
\* attempted pair and only when that key has no entry; every entry has a
\* catalyst out of its pair, substrate products (never Energy) and an
\* efficiency in [0.1, 0.6); outside initialize() and reset() the catalog
\* never loses a key; and it holds at most 15 entries.
C18_DiscoveryWellFormed ==
    /\ [](/\ DiscoverNewReactionInRange
          /\ Cardinality(SubstrateKeys) = 15
          /\ mode = "discovery" =>
                /\ DOMAIN reactionCatalog \subseteq SubstrateKeys
                /\ Cardinality(DOMAIN reactionCatalog) <= 15
                /\ \A k \in DOMAIN reactionCatalog :
                      Discoverable(reactionCatalog[k],
                                   reactionCatalog[k].reactant1,
                                   reactionCatalog[k].reactant2))
    /\ [][(mode = "discovery" /\ lastOp' \notin {"initialize", "reset"}) =>
             /\ DOMAIN reactionCatalog \subseteq DOMAIN reactionCatalog'
             /\ reactionCatalog' # reactionCatalog =>
                   /\ Len(rxLog') = Len(rxLog) + 1
                   /\ LoggedKey(rxLog', Len(rxLog')) \notin DOMAIN reactionCatalog
                   /\ DOMAIN reactionCatalog' =
                         DOMAIN reactionCatalog \cup {LoggedKey(rxLog', Len(rxLog'))}]_vars

\* The discovery engine has returned from a step() that discovered a
\* reaction and executed it.
C18_DiscoveredAndExecuted ==
    /\ mode = "discovery"
    /\ pc = 0
    /\ lastOp = "step"
    /\ reactionCatalog # EmptyMap
    /\ totalReactions > 0

(* ------------------------------ lifespans ------------------------------ *)

\* The ids of the products of the reactions the current step() executed.
ProductsOfStep == UNION {rxLog[k].products : k \in Executed}

WorkerInit ==
    /\ worker.nextLineageId <= MaxLineageId
    /\ \E p \in InitCommands : worker' = [init(worker, p) EXCEPT !.op = "onmessage"]
    /\ ~scaffold.loaded
    /\ UNCHANGED <<simulation, scaffold, probe>>

\* case 'start': setInterval(tick, 1000 / 60), whose timer is never cleared.
WorkerStart ==
    /\ ~worker.simulationRunning
    /\ worker.intervals < MaxIntervals
    /\ worker' = [worker EXCEPT !.simulationRunning = TRUE,
                                !.intervals = @ + 1,
                                !.touched = {}, !.op = "onmessage"]
    /\ ~scaffold.loaded
    /\ UNCHANGED <<simulation, scaffold, probe>>

\* case 'stop'
WorkerStop ==
    /\ worker' = [worker EXCEPT !.simulationRunning = FALSE,
                                !.touched = {}, !.op = "onmessage"]
    /\ ~scaffold.loaded
    /\ UNCHANGED <<simulation, scaffold, probe>>

\* case 'reset'
WorkerReset ==
    /\ worker.nextLineageId <= MaxLineageId
    /\ worker.params # EmptyMap
    /\ worker' = [init(worker, worker.params) EXCEPT !.op = "onmessage"]
    /\ ~scaffold.loaded
    /\ UNCHANGED <<simulation, scaffold, probe>>

\* case 'setParams'
WorkerSetParams ==
    /\ \E newParams \in SetParamsCommands :
          worker' = [worker EXCEPT !.params = Spread(@, newParams),
                                      !.touched = {}, !.op = "onmessage"]
    /\ ~scaffold.loaded
    /\ UNCHANGED <<simulation, scaffold, probe>>

\* The slot indices the loops of tick() run over.
LoopSlots(w) ==
    IF Has(w.params, "particleCount") THEN 0 .. w.params.particleCount - 1 ELSE {}

\* An interval timer of 'start' fires: tick().
WorkerTick ==
    /\ worker.intervals > 0
    /\ worker.simulationRunning => worker.frameCount < MaxTicks
    /\ \E u \in [LoopSlots(worker) -> BrownianXDraws] :
          worker' = [tick(worker, u) EXCEPT !.op = "tick"]
    /\ ~scaffold.loaded
    /\ UNCHANGED <<simulation, scaffold, probe>>

\* The Worker is constructed from the earlier script instead of worker.ts.
ScaffoldLoad ==
    /\ ~scaffold.loaded
    /\ worker = WorkerLoaded
    /\ scaffold' = ScaffoldLoaded
    /\ UNCHANGED <<simulation, worker, probe>>

\* case 'start'
ScaffoldStart ==
    /\ scaffold.loaded
    /\ scaffold.simulationId = 0 => scaffold.created < MaxIntervals
    /\ scaffold' = [scaffoldStart(scaffold) EXCEPT !.op = "onmessage"]
    /\ UNCHANGED <<simulation, worker, probe>>

\* case 'stop', and case 'reset', which only calls stop()
ScaffoldStop ==
    /\ scaffold.loaded
    /\ scaffold' = [scaffoldStop(scaffold) EXCEPT !.op = "onmessage"]
    /\ UNCHANGED <<simulation, worker, probe>>

\* case 'updateParams' with params
ScaffoldUpdateParams ==
    /\ scaffold.loaded
    /\ scaffold' = [scaffold EXCEPT !.params = "set", !.op = "onmessage"]
    /\ UNCHANGED <<simulation, worker, probe>>

\* An interval timer that is set fires: tick().
ScaffoldTick ==
    /\ scaffold.timers # {}
    /\ scaffold.updates < MaxTicks
    /\ scaffold' = [scaffoldTick(scaffold) EXCEPT !.op = "tick"]
    /\ UNCHANGED <<simulation, worker, probe>>

NextWorker ==
    \/ WorkerInit
    \/ WorkerStart
    \/ WorkerStop
    \/ WorkerReset
    \/ WorkerSetParams
    \/ WorkerTick
    \/ ScaffoldLoad
    \/ ScaffoldStart
    \/ ScaffoldStop
    \/ ScaffoldUpdateParams
    \/ ScaffoldTick

\* The worker script alone; no Simulation object is stepped.
InitWorker == Init /\ mode = "fixed"

SpecWorker == InitWorker /\ [][NextWorker]_vars

\* The slots init() allocated, those flagged active, those flagged inactive.
Slots(w) == DOMAIN w.p_active
ActiveSlots(w) == {k \in Slots(w) : w.p_active[k] = 1}
InactiveSlots(w) == {k \in Slots(w) : w.p_active[k] = 0}

\* C11: once init() has allocated the pool, in every state the commands
\* and ticks lead to, inactiveIndices holds exactly the slots whose
\* p_active flag is 0, none of them twice; so the slot a spawn pops is
\* never an active one.
C11_FreeListExact ==
    worker.allocated =>
        /\ Range(worker.inactiveIndices) = InactiveSlots(worker)
        /\ \A a, b \in 1 .. Len(worker.inactiveIndices) :
              a # b => worker.inactiveIndices[a] # worker.inactiveIndices[b]
        /\ popped(worker.inactiveIndices) \notin ActiveSlots(worker)

\* After a setParams changed particleCount, a tick left a seeded template
\* deactivated in the free list beside a monomer the inflow spawned.
C11_DeactivatedAndRespawned ==
    /\ worker.allocated
    /\ worker.posted.type = "stateUpdate"
    /\ worker.params.particleCount # Cardinality(Slots(worker))
    /\ \E k \in InactiveSlots(worker) : worker.p_lineageId[k] > 0
    /\ \E k \in ActiveSlots(worker) : worker.p_type[k] = ParticleType_Monomer

\* What init(p) leaves when run in state w: min(seedTemplates,
\* particleCount) templates, each in a slot of its own with a lineage id of
\* its own, in a pool of particleCount slots.
SeededWithinCapacity(w, p) ==
    LET after == init(w, p)
        seeds == IF Has(p, "seedTemplates") THEN p.seedTemplates ELSE 0
        n == Cardinality(ActiveSlots(after))
    IN  /\ Cardinality(Slots(after)) = p.particleCount
        /\ n = Min(seeds, p.particleCount)
        /\ ActiveSlots(after) = 0 .. n - 1
        /\ after.nextLineageId = w.nextLineageId + n
        /\ \A k \in ActiveSlots(after) :
              /\ after.p_type[k] = ParticleType_Template
              /\ after.p_lineageId[k] = w.nextLineageId + k

\* C12: the active slots never outnumber the slots init() allocated; with
\* the free list empty, the seeding loop and the inflow loop leave the
\* whole worker state as it is, for any number of iterations; and an
\* 'init' or a 'reset' in any state the worker reaches seeds no more
\* templates than the pool has slots, overwriting none.
C12_ExhaustedPoolSkipsSpawn ==
    /\ Cardinality(ActiveSlots(worker)) <= Cardinality(Slots(worker))
    /\ (worker.allocated /\ worker.inactiveIndices = <<>>) =>
          \A k \in 1 .. 3 :
              /\ seedLoop(worker, k) = worker
              /\ inflowLoop(worker, k) = worker
    /\ \A p \in InitCommands : SeededWithinCapacity(worker, p)
    /\ worker.params # EmptyMap => SeededWithinCapacity(worker, worker.params)

\* A tick whose inflow was due found the free list empty: every slot still
\* holds the template init() seeded there; three were asked for, two fit.
C12_InflowFoundPoolEmpty ==
    /\ worker.allocated
    /\ worker.posted.type = "stateUpdate"
    /\ worker.params.seedTemplates > Cardinality(Slots(worker))
    /\ worker.frameCount % worker.params.inflowInterval = 0
    /\ worker.inactiveIndices = <<>>
    /\ \A k \in Slots(worker) :
          /\ worker.p_active[k] = 1
          /\ worker.p_type[k] = ParticleType_Template

(* ---------------------- C23, C24: the exported state ------------------- *)

\* The index k of the exported buffers at which the energy carriers begin:
\* the number of entries of types that are not ParticleType.Energy.
SubstrateEntries(s, m) ==
    Cardinality({n \in DOMAIN s.types : s.types[n] # ParticleType_Energy(m)})

\* C23: in every exported state the substrate entries precede the energy
\* entries (there is an index k with types[n] # Energy before it and
\* types[n] = Energy from it on), and entry n of positions, types and
\* energies describes one particle: the n-th active substrate particle
\* before k, the (n - k)-th active carrier, with intensity 1.0, from k on.
C23_SubstrateBeforeEnergyAligned ==
    LET s == exportState(particles, energyParticles, mode)
        k == SubstrateEntries(s, mode)
        aP == ActiveIds(particles)
        aE == ActiveEnergyIds(energyParticles)
    IN  /\ Len(s.positions) = 2 * Len(s.types)
        /\ Len(s.energies) = Len(s.types)
        /\ Len(s.types) = Len(aP) + Len(aE)
        /\ k = Len(aP)
        /\ \A n \in 1 .. Len(s.types) :
              IF n <= k
              THEN /\ s.types[n] # ParticleType_Energy(mode)
                   /\ s.types[n] = particles[aP[n]].type
                   /\ s.positions[2 * n - 1] = particles[aP[n]].x
                   /\ s.positions[2 * n] = particles[aP[n]].y
                   /\ s.energies[n] = particles[aP[n]].energy
              ELSE /\ s.types[n] = ParticleType_Energy(mode)
                   /\ s.positions[2 * n - 1] = energyParticles[aE[n - k]].x
                   /\ s.positions[2 * n] = energyParticles[aE[n - k]].y
                   /\ s.energies[n] = 100

\* C23 witness: after a step that executed a reaction, the exported state
\* holds substrate entries and energy entries.
C23_ExportedBothKinds ==
    /\ pc = 0
    /\ frameCount > 0
    /\ totalReactions > 0
    /\ ActiveCount(particles) > 1
    /\ ActiveCount(energyParticles) > 0

\* The per-type counts of a stats record, added up.
SumOfCounts(st, m) ==
    st.particleCountA + st.particleCountB + st.particleCountC
        + st.particleCountD
        + (IF m = "fixed" THEN st.particleCountBinder ELSE st.particleCountE)

\* C24: the exported stats agree with the exported buffers: the per-type
\* live counts add up to the number of entries of types that are not
\* Energy (no live substrate type is left uncounted), energyParticleCount
\* is the number of Energy entries, and discoveredReactions is the number
\* of distinct entries of the catalog.
C24_StatsMatchBuffers ==
    LET s == exportState(particles, energyParticles, mode)
        st == stats(particles, energyParticles, mode, reactionCatalog,
                    frameCount, totalReactions)
    IN  /\ SumOfCounts(st, mode) = SubstrateEntries(s, mode)
        /\ st.energyParticleCount =
               Cardinality({n \in DOMAIN s.types :
                               s.types[n] = ParticleType_Energy(mode)})
        /\ st.discoveredReactions = Cardinality(DOMAIN reactionCatalog)
        /\ st.frameCount = frameCount
        /\ st.totalReactions = totalReactions

\* C24 witness: a reaction has replaced its reactants by products of another
\* type, so that the counts differ from the seeded ones, and a carrier is
\* exported.
C24_CountsAfterReaction ==
    /\ pc = 0
    /\ totalReactions > 0
    /\ \E k \in Executed : rxLog[k].executed
    /\ ActiveCount(energyParticles) > 0
    /\ stats(particles, energyParticles, mode, reactionCatalog,
             frameCount, totalReactions).discoveredReactions > 0

(* ------------------------ C21, C22: energy carriers -------------------- *)

\* The carrier id, active before the step, is in the store and active
\* after it.
StaysActive(id) ==
    /\ id \in DOMAIN energyParticles'
    /\ energyParticles'[id].active

\* The step is the motion phase and has put the carrier id past the right
\* boundary.
LeftByRightBoundary(id) ==
    /\ At("move")
    /\ id \in DOMAIN energyParticles'
    /\ energyParticles'[id].x > Lx

\* The step is an attemptReaction call that executed its reaction with the
\* carrier id as donor.
ConsumedAsDonor(id) ==
    /\ At("react")
    /\ Len(rxLog') = Len(rxLog) + 1
    /\ rxLog'[Len(rxLog')].executed
    /\ rxLog'[Len(rxLog')].donor = id

\* C21: over every step of step() and every updateParams(), a carrier that
\* is active either stays in the store and active, or the motion phase has
\* moved it past the right boundary (x > Lx), or an executed reaction has
\* consumed it as its donor.  (initialize() and reset() rebuild the whole
\* population and are not steps of this property.)
C21_CarrierLeavesOnlyByExitOrReaction ==
    [][lastOp' \notin {"initialize", "reset"} =>
          \A id \in DOMAIN energyParticles :
              energyParticles[id].active =>
                  \/ StaysActive(id)
                  \/ LeftByRightBoundary(id)
                  \/ ConsumedAsDonor(id)]_vars

\* C21 witness: at the cleanup of a step, one carrier has been deactivated
\* past the right boundary and another as the donor of an executed
\* reaction, and a carrier that did neither is still active.
C21_ExitedAndConsumed ==
    /\ At("cleanup")
    /\ \E id \in DOMAIN energyParticles :
          /\ ~energyParticles[id].active
          /\ energyParticles[id].x > Lx
    /\ \E k \in Executed :
          /\ ~energyParticles[rxLog[k].donor].active
          /\ energyParticles[rxLog[k].donor].x <= Lx
    /\ ActiveCount(energyParticles) > 0
\* The carriers the step has added to the store.
Injected == DOMAIN energyParticles' \ DOMAIN energyParticles

\* The number of carriers one step() is to inject: 2 beside the fixed
\* catalog, params.energyInflowRate beside the discovery engine.
InflowNumber == IF mode = "fixed" THEN 2 ELSE params.energyInflowRate

\* C22: the inflow of a step() adds exactly the inflow number of carriers,
\* each active and in the strip 0 <= x < 20, and leaves the others as they
\* were; only the motion phase changes a carrier's position and no motion
\* phase follows the inflow within the tick, so the injected carriers are
\* not moved in it; and the snapshot the reaction phase scans for donors,
\* taken after the inflow, holds every active carrier, the injected ones
\* included.
C22_InflowCountStripAndOrder ==
    [][/\ At("inflow") =>
              /\ Cardinality(Injected) = InflowNumber
              /\ Injected = nextId .. (nextId + InflowNumber - 1)
              /\ \A id \in Injected :
                    /\ energyParticles'[id].active
                    /\ 0 <= energyParticles'[id].x
                    /\ energyParticles'[id].x < 20
              /\ \A id \in DOMAIN energyParticles :
                    energyParticles'[id] = energyParticles[id]
              /\ pc' > 0
              /\ StepOrder[pc'] = "react"
       /\ ~At("inflow") => Injected = {}
       /\ ~At("move") =>
              \A id \in DOMAIN energyParticles \cap DOMAIN energyParticles' :
                  /\ energyParticles'[id].x = energyParticles[id].x
                  /\ energyParticles'[id].y = energyParticles[id].y
       /\ (At("react") \/ At("cleanup")) =>
              (pc' = 0 \/ StepOrder[pc'] \in {"react", "cleanup"})
       /\ (At("react") /\ i = 0 /\ i' > 0) =>
              Range(activeEnergy') =
                  {id \in DOMAIN energyParticles : energyParticles[id].active}
      ]_vars

\* C22 witness: the reaction phase of a tick is scanning a donor snapshot
\* that holds the carriers the inflow of this tick has injected, which are
\* where the inflow put them.
C22_InjectedCarriersInSnapshot ==
    /\ At("react")
    /\ i > 0
    /\ Cardinality({id \in Range(activeEnergy) : id >= 4}) = InflowNumber
    /\ \A id \in Range(activeEnergy) :
          id >= 4 => /\ energyParticles[id].x = 10
                     /\ energyParticles[id].active

(* -------------------- C25, C26: the worker's ticks --------------------- *)

\* The particle state of the worker: the slot arrays and the free list.
ParticleState(w) ==
    <<w.p_type, w.p_x, w.p_y, w.p_lineageId, w.p_active, w.inactiveIndices>>

\* C25: while the worker is stopped ('stop' processed, no 'start' since) a
\* firing timer's tick changes no particle state, leaves the frame counter
\* and the lineage counter where they were, and posts nothing.  In the
\* earlier script 'stop' clears the timer: no timer is set while it is
\* stopped, and a tick runs only between a 'start' and the next 'stop'.
C25_StoppedTickDoesNothing ==
    /\ [][(worker'.op = "tick" /\ ~worker.simulationRunning) =>
              /\ ParticleState(worker') = ParticleState(worker)
              /\ worker'.frameCount = worker.frameCount
              /\ worker'.nextLineageId = worker.nextLineageId
              /\ worker'.posted = worker.posted
              /\ worker'.detached = worker.detached
              /\ worker'.params = worker.params
              /\ ~worker'.simulationRunning]_vars
    /\ [][(scaffold'.op = "tick" /\ scaffold' # scaffold) =>
              /\ scaffold.simulationId # 0
              /\ scaffold.simulationId \in scaffold.timers]_vars
    /\ [](scaffold.simulationId = 0 => scaffold.timers = {})

\* C25 witness: the worker has run ticks that moved particles and posted
\* a stateUpdate, has been stopped, and its timer has fired since.
C25_TimerFiredWhileStopped ==
    /\ worker.op = "tick"
    /\ ~worker.simulationRunning
    /\ worker.intervals > 0
    /\ worker.allocated
    /\ worker.frameCount > 0
    /\ worker.posted.type = "stateUpdate"
    /\ ExportedSlots(worker) # {}

\* C26: a tick that posts a stateUpdate posts four buffers it has allocated
\* itself (none of them existed before the tick, so none was posted by an
\* earlier tick), its transfer list is those four, which are detached from
\* the worker from then on; and no handler reads or writes a buffer that
\* has been posted.
C26_FreshBuffersTransferredNeverReused ==
    [][/\ (worker'.op = "tick" /\ worker'.frameCount # worker.frameCount
                               /\ worker'.posted.type = "stateUpdate"
                               /\ worker'.posted # worker.posted) =>
              /\ Cardinality(worker'.postedBuffers) = 4
              /\ worker'.postedBuffers \cap (0 .. worker.heap) = {}
              /\ worker'.postedBuffers \cap worker.arrays = {}
              /\ worker'.postedBuffers \cap worker.detached = {}
              /\ worker'.transfer = worker'.postedBuffers
              /\ worker'.detached = worker.detached \cup worker'.transfer
       /\ worker' # worker => worker'.touched \cap worker.detached = {}
      ]_vars

\* C26 witness: the worker has posted at least two stateUpdates and has run
\* a tick that read the particle arrays after the first of them.
C26_PostedTwice ==
    /\ worker.op = "tick"
    /\ worker.posted.type = "stateUpdate"
    /\ Cardinality(worker.detached) >= 8
    /\ worker.touched \cap worker.arrays # {}
    /\ worker.postedBuffers \subseteq worker.touched

(* ------------------ the motion phase's functions alone ----------------- *)

\* The scenes the functions of updateAndMoveParticles are applied to:
\* particleRadius 4, particles 8 apart touch.
SceneRadius == 4
SceneLifespan == 5

\* A scene: the store ps, the pending steps st, the loss percentage, the
\* cell size of the grid, the query of getNeighbors, the direction draws
\* of step 1; done once the function has been applied, after and found its
\* results.
Scene(op, ps, st, loss, cellSize, qx, qy, radius) ==
    [op |-> op, ps |-> ps, st |-> st, r |-> SceneRadius, loss |-> loss,
     cellSize |-> cellSize, qx |-> qx, qy |-> qy, radius |-> radius,
     done |-> FALSE,
     after |-> [ps |-> ps, st |-> st, examined |-> <<>>],
     found |-> <<>>, angle |-> <<>>]

\* Two particles on a line parallel to an axis, from overlapping by 6 to
\* touching, each an A or a Binder, each with a pending step.
PairDistances == {2, 4, 6, 8}
PairDirections == {<<1, 0>>, <<0 - 1, 0>>, <<0, 1>>, <<0, 0 - 1>>}
PairTypes == {ParticleType_A, ParticleType_Binder}
PairSteps == {<<4, 0>>, <<0 - 4, 0>>, <<0, 4>>, <<3, 0 - 2>>}
LossPcts == {0, 75}

PairScenes ==
    { Scene("pair",
            0 :> SubstrateParticle(16, 20, t0, SceneLifespan)
            @@ 1 :> SubstrateParticle(16 + d * n[1], 20 + d * n[2], t1,
                                      SceneLifespan),
            0 :> s0 @@ 1 :> s1,
            loss, 2 * SceneRadius, 0, 0, 0) :
        d \in PairDistances, n \in PairDirections, t0 \in PairTypes,
        t1 \in PairTypes, s0 \in PairSteps, s1 \in PairSteps,
        loss \in LossPcts }

\* Three A particles on one horizontal line, after the tentative steps.
PassXs == {6, 9, 11, 13, 16, 19}

PassScenes ==
    { Scene("pass",
            0 :> SubstrateParticle(x0, 20, ParticleType_A, SceneLifespan)
            @@ 1 :> SubstrateParticle(x1, 20, ParticleType_A, SceneLifespan)
            @@ 2 :> SubstrateParticle(x2, 20, ParticleType_A, SceneLifespan),
            0 :> <<0, 0>> @@ 1 :> <<0, 0>> @@ 2 :> <<0, 0>>,
            0, 2 * SceneRadius, 0, 0, 0) :
        x0 \in PassXs, x1 \in PassXs, x2 \in PassXs }

\* Two active particles and one expired one, at points on both sides of
\* the origin and on cell borders; a query point and a radius up to the
\* cell size.
ScenePoints ==
    {<<0 - 9, 20>>, <<0 - 8, 16>>, <<0 - 1, 20>>, <<0, 24>>, <<7, 15>>,
     <<8, 20>>, <<16, 24>>}
QueryPoints == {<<0 - 8, 20>>, <<0 - 1, 16>>, <<0, 20>>, <<7, 23>>, <<8, 24>>}
CellSizes == {8, 12}

QueryScenes ==
    { Scene("query",
            0 :> SubstrateParticle(a[1], a[2], ParticleType_A, SceneLifespan)
            @@ 1 :> SubstrateParticle(b[1], b[2], ParticleType_Binder,
                                      SceneLifespan)
            @@ 2 :> [SubstrateParticle(0, 20, ParticleType_A, 0)
                        EXCEPT !.active = FALSE],
            0 :> <<0, 0>> @@ 1 :> <<0, 0>> @@ 2 :> <<0, 0>>,
            0, cs, q[1], q[2], radius) :
        a \in ScenePoints, b \in ScenePoints, q \in QueryPoints,
        cs \in CellSizes, radius \in {0, 4, 8, 12} }

\* A Binder between two particles on one horizontal line, 4 to 12 apart,
\* and a direction draw for each of the three.
StepXs == {8, 12, 16, 20}

StepScenes ==
    { [Scene("steps",
             0 :> SubstrateParticle(x0, 20, t0, SceneLifespan)
             @@ 1 :> SubstrateParticle(x1, 20, ParticleType_Binder, SceneLifespan)
             @@ 2 :> SubstrateParticle(x2, 20, ParticleType_A, SceneLifespan),
             0 :> <<0, 0>> @@ 1 :> <<0, 0>> @@ 2 :> <<0, 0>>,
             0, 2 * SceneRadius, 0, 0, 0)
          EXCEPT !.angle = a] :
        x0 \in StepXs, x1 \in StepXs, x2 \in StepXs, t0 \in PairTypes,
        a \in [0 .. 2 -> AngleDraws] }

\* The orders in which the particles of a store can be iterated.
Orders(ps) ==
    {o \in [1 .. Cardinality(DOMAIN ps) -> DOMAIN ps] :
        \A m, n \in DOMAIN o : m # n => o[m] # o[n]}

\* A Simulation object that is not stepped, and a scene.
InitGeometry ==
    /\ mode = "fixed"
    /\ params = ConstructorParams(mode)
    /\ Lx = params.Lx
    /\ Ly = params.Ly
    /\ particles = EmptyMap
    /\ energyParticles = EmptyMap
    /\ reactionCatalog = EmptyMap
    /\ frameCount = 0
    /\ nextId = 0
    /\ totalReactions = 0
    /\ pc = 0
    /\ activeParticles = <<>>
    /\ activeEnergy = <<>>
    /\ i = 0
    /\ j = 0
    /\ initialized = FALSE
    /\ lastOp = "constructor"
    /\ trace = <<>>
    /\ rxLog = <<>>
    /\ reactStart = NoStores
    /\ worker = WorkerLoaded
    /\ scaffold = ScaffoldAbsent
    /\ probe \in PairScenes \cup PassScenes \cup StepScenes
                 \cup {s \in QueryScenes : s.radius <= s.cellSize}

\* One iteration of the collision pass on the pair (0, 1).
ProbeCollide ==
    /\ probe.op = "pair"
    /\ ~probe.done
    /\ probe' = [probe EXCEPT
                    !.done = TRUE,
                    !.after = collide(probe.after, 0, 1, probe.r,
                                      lossFactor(probe.loss))]
    /\ UNCHANGED <<simulation, worker, scaffold>>

\* The collision pass (step 4) on the scene: the grid is rebuilt, then the
\* loops run.
ProbePass ==
    /\ probe.op = "pass"
    /\ ~probe.done
    /\ LET active == ActiveIds(probe.ps)
       IN  probe' = [probe EXCEPT
                        !.done = TRUE,
                        !.after = collisionPass(probe.after, active,
                                      BuildGrid(probe.ps, active, probe.cellSize),
                                      probe.r, probe.cellSize,
                                      lossFactor(probe.loss))]
    /\ UNCHANGED <<simulation, worker, scaffold>>

\* getNeighbors(x, y, radius) on the grid of the scene.
ProbeGetNeighbors ==
    /\ probe.op = "query"
    /\ ~probe.done
    /\ LET active == ActiveIds(probe.ps)
       IN  probe' = [probe EXCEPT
                        !.done = TRUE,
                        !.found = getNeighbors(probe.ps,
                                      BuildGrid(probe.ps, active, probe.cellSize),
                                      probe.qx, probe.qy, probe.radius,
                                      probe.cellSize)]
    /\ UNCHANGED <<simulation, worker, scaffold>>

\* Steps 1 to 3 on the scene, the particles iterated in some order; the
\* binder range is 2r.
ProbeSteps ==
    /\ probe.op = "steps"
    /\ ~probe.done
    /\ \E order \in Orders(probe.ps) :
          probe' = [probe EXCEPT
                       !.done = TRUE,
                       !.found = order,
                       !.after = tentativeSteps(probe.after, order, probe.angle,
                                     probe.r, 2 * probe.r,
                                     params.randomStepMagnitudeX,
                                     probe.cellSize)]
    /\ UNCHANGED <<simulation, worker, scaffold>>

NextGeometry ==
    \/ ProbeCollide
    \/ ProbePass
    \/ ProbeGetNeighbors
    \/ ProbeSteps

SpecGeometry == InitGeometry /\ [][NextGeometry]_vars

(* --------------------- C27, C28: one collision ------------------------ *)

\* The scene is a resolved pair: the unit vector n from particle 0 to
\* particle 1, the tangent t, the distance d and the overlap before it.
PairN == <<Sign(probe.ps[1].x - probe.ps[0].x), Sign(probe.ps[1].y - probe.ps[0].y)>>
PairT == <<0 - PairN[2], PairN[1]>>
PairD == ISqrt(Hypot2(probe.ps[1].x - probe.ps[0].x, probe.ps[1].y - probe.ps[0].y))
PairOverlap == 2 * probe.r - PairD
Dot(v, w) == v[1] * w[1] + v[2] * w[2]
IsBinder(id) == probe.ps[id].type = ParticleType_Binder

\* particle id has moved by k times the unit vector n.
MovedAlongN(id, k) ==
    /\ probe.after.ps[id].x = probe.ps[id].x + k * PairN[1]
    /\ probe.after.ps[id].y = probe.ps[id].y + k * PairN[2]

\* The two overlap (0 < d < 2r) and the pass has resolved them.
OverlappingPairResolved ==
    /\ probe.op = "pair"
    /\ probe.done
    /\ PairD > 0
    /\ PairD < 2 * probe.r

\* C27: two overlapping non-binder particles, no collision loss: one
\* resolution leaves them 2r apart, has moved each by half the overlap
\* along the line of centres, away from the other, has exchanged the
\* normal components of their pending steps and kept the tangential ones.
C27_ElasticResolution ==
    (OverlappingPairResolved /\ ~IsBinder(0) /\ ~IsBinder(1)
                             /\ probe.loss = 0) =>
        /\ Hypot2(probe.after.ps[1].x - probe.after.ps[0].x,
                  probe.after.ps[1].y - probe.after.ps[0].y)
               = (2 * probe.r) * (2 * probe.r)
        /\ 2 * (probe.ps[0].x - probe.after.ps[0].x) = PairN[1] * PairOverlap
        /\ 2 * (probe.ps[0].y - probe.after.ps[0].y) = PairN[2] * PairOverlap
        /\ 2 * (probe.after.ps[1].x - probe.ps[1].x) = PairN[1] * PairOverlap
        /\ 2 * (probe.after.ps[1].y - probe.ps[1].y) = PairN[2] * PairOverlap
        /\ Dot(probe.after.st[0], PairN) = Dot(probe.st[1], PairN)
        /\ Dot(probe.after.st[1], PairN) = Dot(probe.st[0], PairN)
        /\ Dot(probe.after.st[0], PairT) = Dot(probe.st[0], PairT)
        /\ Dot(probe.after.st[1], PairT) = Dot(probe.st[1], PairT)

\* C27 witness: a resolved pair of non-binders that overlapped, whose
\* pending steps differed along the line of centres and had a tangential
\* part.
C27_ElasticPairResolved ==
    /\ OverlappingPairResolved
    /\ ~IsBinder(0)
    /\ ~IsBinder(1)
    /\ probe.loss = 0
    /\ Dot(probe.st[0], PairN) # Dot(probe.st[1], PairN)
    /\ Dot(probe.st[0], PairT) # 0
    /\ probe.after.st # probe.st
    /\ probe.after.ps # probe.ps

\* C28: a Binder and a non-binder that overlap: only the non-binder moves,
\* to exactly 2r from the Binder on the line of centres, on its own side,
\* and its pending step is zeroed; the Binder keeps its position and its
\* pending step.  Two Binders that overlap: each moves back by half the
\* overlap and both pending steps are zeroed.
C28_BinderResolution ==
    /\ (OverlappingPairResolved /\ IsBinder(0) /\ ~IsBinder(1)) =>
           /\ probe.after.ps[0] = probe.ps[0]
           /\ probe.after.st[0] = probe.st[0]
           /\ probe.after.ps[1].x = probe.ps[0].x + PairN[1] * 2 * probe.r
           /\ probe.after.ps[1].y = probe.ps[0].y + PairN[2] * 2 * probe.r
           /\ probe.after.st[1] = <<0, 0>>
    /\ (OverlappingPairResolved /\ ~IsBinder(0) /\ IsBinder(1)) =>
           /\ probe.after.ps[1] = probe.ps[1]
           /\ probe.after.st[1] = probe.st[1]
           /\ probe.after.ps[0].x = probe.ps[1].x - PairN[1] * 2 * probe.r
           /\ probe.after.ps[0].y = probe.ps[1].y - PairN[2] * 2 * probe.r
           /\ probe.after.st[0] = <<0, 0>>
    /\ (OverlappingPairResolved /\ IsBinder(0) /\ IsBinder(1)) =>
           /\ 2 * (probe.ps[0].x - probe.after.ps[0].x) = PairN[1] * PairOverlap
           /\ 2 * (probe.ps[0].y - probe.after.ps[0].y) = PairN[2] * PairOverlap
           /\ 2 * (probe.after.ps[1].x - probe.ps[1].x) = PairN[1] * PairOverlap
           /\ 2 * (probe.after.ps[1].y - probe.ps[1].y) = PairN[2] * PairOverlap
           /\ probe.after.st[0] = <<0, 0>>
           /\ probe.after.st[1] = <<0, 0>>

\* C28 witness: a resolved overlapping pair whose first particle is a
\* Binder with a pending step, and whose second, a non-binder with a
\* pending step, has been moved.
C28_BinderPairResolved ==
    /\ OverlappingPairResolved
    /\ IsBinder(0)
    /\ ~IsBinder(1)
    /\ probe.st[0] # <<0, 0>>
    /\ probe.st[1] # <<0, 0>>
    /\ probe.after.ps[1] # probe.ps[1]

(* ------------------------ C29: the collision pass --------------------- *)

\* The particles a and b of the scene are closer than 2r when the pass
\* starts.
OverlapAtStart(a, b) ==
    HypotLess(probe.ps[b].x - probe.ps[a].x, probe.ps[b].y - probe.ps[a].y,
              2 * probe.r)

\* How often the pass got to the distance test of the pair (a, b).
Examinations(a, b) ==
    Cardinality({k \in DOMAIN probe.after.examined :
                    probe.after.examined[k] = <<a, b>>})

\* C29: after a collision pass, every pair of active particles that were
\* closer than 2r when it started has been examined exactly once, and no
\* pair more than once.
C29_OverlappingPairsExaminedOnce ==
    (probe.op = "pass" /\ probe.done) =>
        \A a, b \in Range(ActiveIds(probe.ps)) :
            a < b =>
                /\ Examinations(a, b) <= 1
                /\ OverlapAtStart(a, b) => Examinations(a, b) = 1

(* --------------------------- C30: getNeighbors ------------------------- *)

\* The brute-force scan: the active particles of the scene within the
\* radius of the query point.
BruteForce ==
    {id \in DOMAIN probe.ps :
        /\ probe.ps[id].active
        /\ Hypot2(probe.ps[id].x - probe.qx, probe.ps[id].y - probe.qy)
               <= probe.radius * probe.radius}

\* C30: for a radius up to the cell size, getNeighbors(x, y, radius)
\* returns exactly the active particles at distance <= radius from (x, y),
\* each once, also for negative coordinates and for points on cell borders.
C30_GetNeighborsIsBruteForce ==
    (probe.op = "query" /\ probe.done /\ probe.radius <= probe.cellSize) =>
        /\ Range(probe.found) = BruteForce
        /\ Len(probe.found) = Cardinality(BruteForce)

\* C30 witness: a query with the radius equal to the cell size has found a
\* particle at a negative x in another cell than the query point's, and
\* has left out a particle that is farther away.
C30_FoundAcrossCells ==
    /\ probe.op = "query"
    /\ probe.done
    /\ probe.radius = probe.cellSize
    /\ \E id \in Range(probe.found) :
          /\ probe.ps[id].x < 0
          /\ cellKey(probe.ps[id].x, probe.ps[id].y, probe.cellSize)
                 # cellKey(probe.qx, probe.qy, probe.cellSize)
    /\ \E id \in Range(ActiveIds(probe.ps)) : id \notin Range(probe.found)

(* ------------------------ C31: the tentative steps --------------------- *)

\* The component k of the pulls on p of the particles of the set qs.
RECURSIVE SumPull(_, _, _, _, _, _, _)
SumPull(ps, p, qs, r, binderRange, X, k) ==
    IF qs = {} THEN 0
    ELSE LET q == CHOOSE q \in qs : TRUE
         IN  binderPull(ps, p, q, r, binderRange, X)[k]
                 + SumPull(ps, p, qs \ {q}, r, binderRange, X, k)

\* The displacement of particle id computed from the positions of the scene
\* alone: its random step plus the pull of the Binders within the binder
\* range of where it was when the motion phase started.
SnapshotStep(id) ==
    LET X == params.randomStepMagnitudeX
        near == {q \in DOMAIN probe.ps :
                    /\ probe.ps[q].active
                    /\ Hypot2(probe.ps[q].x - probe.ps[id].x,
                              probe.ps[q].y - probe.ps[id].y)
                           <= (2 * probe.r) * (2 * probe.r)}
        pullX == SumPull(probe.ps, id, near, probe.r, 2 * probe.r, X, 1)
        pullY == SumPull(probe.ps, id, near, probe.r, 2 * probe.r, X, 2)
    IN  <<Cos(probe.angle[id]) * X + pullX, Sin(probe.angle[id]) * X + pullY>>

\* C31: whatever the order in which steps 1 to 3 iterate the particles,
\* the displacement applied to each particle is the one computed from the
\* positions at the start of the motion phase.
C31_StepsFromSnapshot ==
    (probe.op = "steps" /\ probe.done) =>
        \A id \in DOMAIN probe.ps :
            /\ probe.after.st[id] = SnapshotStep(id)
            /\ probe.after.ps[id].x = probe.ps[id].x + SnapshotStep(id)[1]
            /\ probe.after.ps[id].y = probe.ps[id].y + SnapshotStep(id)[2]

\* C31 witness: the particles were iterated in another order than that of
\* their ids, and a particle was pulled by the Binder, which has itself
\* been displaced.
C31_PulledInAnotherOrder ==
    /\ probe.op = "steps"
    /\ probe.done
    /\ probe.found # <<0, 1, 2>>
    /\ probe.after.ps[1].x # probe.ps[1].x
    /\ \E id \in {0, 2} :
          probe.after.st[id] # <<Cos(probe.angle[id]) * params.randomStepMagnitudeX,
                                 Sin(probe.angle[id]) * params.randomStepMagnitudeX>>

(* ---------------------- C32: stores after cleanup ---------------------- *)

\* The ids of the inactive particles of a store.
InactiveIds(store) == {id \in DOMAIN store : ~store[id].active}

\* C32: when step() has returned no store holds an inactive particle and
\* exportState() reports every stored particle; the cleanup phase removes
\* exactly the particles that are inactive when it starts, and no other
\* phase of step() removes a particle from a store.
C32_CleanupRemovesInactive ==
    /\ [](pc = 0 =>
            /\ InactiveIds(particles) = {}
            /\ InactiveIds(energyParticles) = {}
            /\ ActiveIds(particles) = SortedIds(DOMAIN particles)
            /\ Len(exportState(particles, energyParticles, mode).types) =
                  Cardinality(DOMAIN particles)
                      + Cardinality(DOMAIN energyParticles))
    /\ [][/\ At("cleanup") =>
                /\ DOMAIN particles' = DOMAIN particles \ InactiveIds(particles)
                /\ DOMAIN energyParticles' =
                      DOMAIN energyParticles \ InactiveIds(energyParticles)
          /\ (pc > 0 /\ ~At("cleanup")) =>
                /\ DOMAIN particles \subseteq DOMAIN particles'
                /\ DOMAIN energyParticles \subseteq DOMAIN energyParticles']_vars

\* C32 witness: step() has returned after a tick in which a substrate
\* particle was consumed by a reaction while a carrier was inactive, and
\* none of them is stored any more.
C32_DeactivatedAndRemoved ==
    /\ pc = 0
    /\ lastOp = "step"
    /\ \E k \in 1 .. Len(rxLog) :
          /\ rxLog[k].executed
          /\ rxLog[k].p1 \notin DOMAIN particles
          /\ rxLog[k].donor \notin DOMAIN energyParticles
    /\ reactStart # NoStores
    /\ InactiveIds(reactStart.es) # {}
    /\ DOMAIN particles # {}

(* --------------------- C33: visualization intensity -------------------- *)

\* Intensities a stored particle has between two ticks, in hundredths:
\* that of a seed, of one whose boost or birth has decayed almost wholly,
\* of a catalyst and of a product one cleanup after their reaction.
IntensityDraws == {0, 3, 45, 95}

\* The fixed engine some ticks after earlier reactions: an A and a B that
\* still glow and a carrier, mutually in range, and a catalog that has the
\* A-B entry.
InitIntensity ==
    /\ mode = "fixed"
    /\ params = [ConstructorParams(mode) EXCEPT !.particleCountA = 1]
    /\ Lx = params.Lx
    /\ Ly = params.Ly
    /\ \E xa \in E2ESubstrateXs, xb \in E2ESubstrateXs,
          ea \in IntensityDraws, eb \in IntensityDraws :
          /\ xa < xb
          /\ particles =
                (0 :> [SubstrateParticle(xa, Ly \div 2, ParticleType_A,
                                         InitialLifespan(mode, params))
                          EXCEPT !.energy = ea]
                 @@ 1 :> [SubstrateParticle(xb, Ly \div 2, ParticleType_B,
                                            InitialLifespan(mode, params))
                             EXCEPT !.energy = eb])
    /\ \E xe \in E2EEnergyXs :
          energyParticles = (2 :> EnergyParticle(xe, Ly \div 2))
    /\ MutuallyNear(particles, energyParticles, 0, 1, 2,
                    reactionRadius(mode, params))
    /\ reactionCatalog \in KnownCatalogs(mode)
    /\ frameCount = 0
    /\ nextId = 3
    /\ totalReactions = 0
    /\ pc = 0
    /\ activeParticles = <<>>
    /\ activeEnergy = <<>>
    /\ i = 0
    /\ j = 0
    /\ initialized = TRUE
    /\ lastOp = "initialize"
    /\ trace = <<>>
    /\ rxLog = <<>>
    /\ reactStart = NoStores
    /\ worker = WorkerLoaded
    /\ scaffold = ScaffoldAbsent
    /\ probe = NoProbe

NextIntensity ==
    \/ Step
    \/ IncrementFrame
    \/ Move
    \/ Inflow
    \/ ReactBegin
    \/ ReactPair
    \/ Cleanup

SpecIntensity == InitIntensity /\ [][NextIntensity]_vars

\* A step of ReactPair that has executed a reaction.
ExecutesReaction == totalReactions' = totalReactions + 1

\* The catalyst of the reaction a ReactPair step has executed.
CatalystOfStep ==
    LET e == rxLog'[Len(rxLog')]
    IN  IF e.reactant = e.p1 THEN e.p2 ELSE e.p1

\* C33: the intensity of every stored substrate particle is within [0, 1]
\* in every state; an executed reaction raises that of its catalyst by 0.5,
\* to 1 at most; cleanup lowers that of every particle it keeps by 0.05, to
\* 0 at least.
C33_IntensityWithinUnitInterval ==
    /\ [](\A id \in DOMAIN particles :
              /\ particles[id].energy >= 0
              /\ particles[id].energy <= 100)
    /\ [][/\ ExecutesReaction =>
                particles'[CatalystOfStep].energy =
                    Min(100, particles[CatalystOfStep].energy + 50)
          /\ At("cleanup") =>
                \A id \in DOMAIN particles' :
                    particles'[id].energy = Max(0, particles[id].energy - 5)]_vars

\* C33 witness: step() has returned after a reaction whose catalyst was
\* within 0.5 of full intensity: it was raised to 1 and lowered by the
\* cleanup.
C33_CatalystSaturated ==
    /\ pc = 0
    /\ lastOp = "step"
    /\ \E k \in 1 .. Len(rxLog) :
          /\ rxLog[k].executed
          /\ LET c == IF rxLog[k].reactant = rxLog[k].p1
                      THEN rxLog[k].p2 ELSE rxLog[k].p1
             IN  /\ reactStart.ps[c].energy > 50
                 /\ particles[c].energy = 95

(* ------------------ C34: products sit out their tick ------------------- *)

\* The particles spawned by the reactions of the current reaction phase.
SpawnedThisTick ==
    UNION {rxLog[k].products : k \in DOMAIN rxLog}

\* C34: no attemptReaction call of a tick has a particle spawned in that
\* tick as p1 or p2: both are particles the stores held when the reaction
\* phase started, and the spawned ones are not among those.
C34_ProductsSitOutTheirTick ==
    \A k \in DOMAIN rxLog :
        /\ rxLog[k].p1 \notin SpawnedThisTick
        /\ rxLog[k].p2 \notin SpawnedThisTick
        /\ reactStart # NoStores
        /\ rxLog[k].p1 \in DOMAIN reactStart.ps
        /\ rxLog[k].p2 \in DOMAIN reactStart.ps
        /\ SpawnedThisTick \cap DOMAIN reactStart.ps = {}
        /\ SpawnedThisTick \subseteq DOMAIN particles \cup DOMAIN reactStart.ps

\* C34 witness: the reaction phase is over, and a reaction of it has
\* spawned a product within the reaction radius of another active
\* particle.
C34_ProductNearPartnerUnpaired ==
    /\ pc > 0
    /\ At("cleanup")
    /\ \E k \in DOMAIN rxLog :
          /\ rxLog[k].executed
          /\ \E n \in rxLog[k].products, q \in DOMAIN particles :
                /\ q # n
                /\ particles[q].active
                /\ HypotLess(particles[n].x - particles[q].x,
                             particles[n].y - particles[q].y,
                             reactionRadius(mode, params))

(* ---------------------- C35: one tick timer at most -------------------- *)

\* C35: whatever the interleaving of 'start' and 'stop', at most one
\* periodic tick timer is active: in worker.ts, whose timers are never
\* cleared, at most one has been created; in the earlier script at most one
\* is armed.
C35_AtMostOneTickTimer ==
    /\ worker.intervals <= 1
    /\ Cardinality(scaffold.timers) <= 1

(* -------------------- C36: 'reset' and the counters -------------------- *)

\* C36: 'reset' leaves every slot as init() seeds it, the frame counter at
\* its initial value, so that the next stateUpdate reports frame 1, and
\* the lineage-id counter where seeding from its initial value leaves it.
C36_ResetRestartsCounters ==
    [][WorkerReset =>
          /\ worker'.frameCount = WorkerLoaded.frameCount
          /\ worker'.nextLineageId =
                WorkerLoaded.nextLineageId + Cardinality(ActiveSlots(worker'))
          /\ \A s \in ActiveSlots(worker') :
                /\ worker'.p_type[s] = ParticleType_Template
                /\ worker'.p_lineageId[s] \in 1 .. Cardinality(ActiveSlots(worker'))]_vars

(* ------------------- C37: updateParams and Lx, Ly ---------------------- *)

\* Arguments of updateParams() that carry world dimensions; the type admits
\* any number.
DimensionUpdates ==
    { [Lx |-> 0], [Lx |-> 48, Ly |-> 48] }

\* updateParams(newParams) with new world dimensions, between two ticks.
UpdateDimensions ==
    /\ pc = 0
    /\ \E newParams \in DimensionUpdates : updateParams(newParams)
    /\ lastOp' = "updateParams"
    /\ UNCHANGED <<mode, engine, pc, locals, initialized, trace, rxLog,
                   reactStart>>
    /\ UNCHANGED <<worker, scaffold, probe>>

\* The fixed engine of the scenario with the known A-B entry.
InitParams == InitCatalog /\ mode = "fixed"

NextParams ==
    \/ UpdateDimensions
    \/ Step
    \/ IncrementFrame
    \/ Move
    \/ Inflow
    \/ ReactBegin
    \/ ReactPair
    \/ Cleanup

SpecParams == InitParams /\ [][NextParams]_vars

\* C37: updateParams(partial) changes the supplied keys of the parameters
\* and no other, leaves the particles, the catalog, the frame counter and
\* the reaction counter as they were, and afterwards the Lx and Ly that
\* stepping uses are those of the merged parameters.
C37_UpdateParamsFrame ==
    [][UpdateDimensions =>
          /\ \E newParams \in DimensionUpdates :
                \A k \in DOMAIN params :
                    params'[k] = IF k \in DOMAIN newParams THEN newParams[k]
                                 ELSE params[k]
          /\ DOMAIN params' = DOMAIN params
          /\ UNCHANGED <<particles, energyParticles, reactionCatalog,
                         frameCount, totalReactions>>
          /\ Lx' = params'.Lx
          /\ Ly' = params'.Ly]_vars

(* ---------------- C38: frame counter, reaction counter ----------------- *)

\* The number of times a phase occurs in the trace of the current step().
Occurrences(stmt) == Cardinality({k \in DOMAIN trace : trace[k] = stmt})

\* C38: initialize() and reset() set the frame counter and the reaction
\* counter to 0; after them the frame counter goes up by one in each step()
\* call, once, and the reaction counter goes up by one with each executed
\* reaction and changes in no other way.
C38_CountersCount ==
    /\ [][IF Initialize \/ Reset
          THEN frameCount' = 0 /\ totalReactions' = 0
          ELSE /\ frameCount' = frameCount + (IF At("frame") THEN 1 ELSE 0)
               /\ totalReactions' =
                     totalReactions
                         + (IF /\ Len(rxLog') = Len(rxLog) + 1
                               /\ rxLog'[Len(rxLog')].executed
                            THEN 1 ELSE 0)]_vars
    /\ []((pc = 0 /\ lastOp = "step") => Occurrences("frame") = 1)

\* C38 witness: an initialized engine has returned from its first step(),
\* in which two reactions were executed.
C38_SteppedAndReacted ==
    /\ pc = 0
    /\ lastOp = "step"
    /\ initialized
    /\ frameCount = 1
    /\ totalReactions = 2
    /\ Cardinality({k \in DOMAIN rxLog : rxLog[k].executed}) = 2

(* ------------------- Template: capture and release --------------------- *)

\* u * 2 * Math.PI for u = n / d, as the draw Cos and Sin know.
Turn(n, d) ==
    IF n = 0 THEN <<0, 1>>
    ELSE IF 2 * n = d THEN <<1, 2>>
    ELSE IF 4 * n = d THEN <<1, 4>>
    ELSE <<3, 4>>

\* The SimulationParams the Template class reads; releaseProb in hundredths.
TemplateParams(captureSteps) ==
    [k |-> 2, captureRadius |-> 4, releaseProb |-> 50,
     captureSteps |-> captureSteps, monomerDiameter |-> 2]

\* new Monomer(id, x, y)
Monomer(x, y) == [x |-> x, y |-> y, active |-> TRUE]

\* new Template(id, x, y, angle, lineageId, params); a site holds the set of
\* its captured monomer, empty for null.
Template(id, x, y, angle, lineageId, p) ==
    [id |-> id, x |-> x, y |-> y, angle |-> angle, active |-> TRUE,
     lineageId |-> lineageId, k |-> p.k, captureRadius |-> p.captureRadius,
     releaseProb |-> p.releaseProb,
     captureOffsets |->
         [s \in 0 .. p.k - 1 |->
             [dx |-> p.captureRadius * Cos(Turn(s, p.k)),
              dy |-> p.captureRadius * Sin(Turn(s, p.k))]],
     capturedMonomers |-> [s \in 0 .. p.k - 1 |-> {}],
     captureTimers |-> [s \in 0 .. p.k - 1 |-> 0],
     starvationTimer |-> 0]

\* getCaptureSites()
getCaptureSites(t) ==
    [s \in DOMAIN t.captureOffsets |->
        [x |-> t.x + t.captureOffsets[s].dx * Cos(t.angle)
                   - t.captureOffsets[s].dy * Sin(t.angle),
         y |-> t.y + t.captureOffsets[s].dx * Sin(t.angle)
                   + t.captureOffsets[s].dy * Cos(t.angle),
         occupied |-> t.capturedMonomers[s] # {}]]

\* "distance < this.captureRadius" of attemptCapture.
InCaptureRange(t, siteIndex, mon) ==
    LET site == getCaptureSites(t)[siteIndex]
    IN  HypotLess(mon.x - site.x, mon.y - site.y, t.captureRadius)

\* attemptCapture with "captureTimers[siteIndex] > params.captureSteps".
attemptCaptureLate(w, t, siteIndex, m, p) ==
    LET tpl == w.templates[t]
    IN  IF tpl.capturedMonomers[siteIndex] # {}
        THEN [w |-> w, result |-> FALSE]
        ELSE IF InCaptureRange(tpl, siteIndex, w.monomers[m])
        THEN LET timer == tpl.captureTimers[siteIndex] + 1
             IN  IF timer > p.captureSteps
                 THEN [w |-> [w EXCEPT
                                !.templates[t].captureTimers[siteIndex] = timer,
                                !.templates[t].capturedMonomers[siteIndex] = {m},
                                !.monomers[m].active = FALSE],
                       result |-> TRUE]
                 ELSE [w |-> [w EXCEPT
                                !.templates[t].captureTimers[siteIndex] = timer],
                       result |-> FALSE]
        ELSE [w |-> [w EXCEPT !.templates[t].captureTimers[siteIndex] = 0],
              result |-> FALSE]

\* template.attemptCapture(siteIndex, monomer, params) in the world w of
\* templates and monomers: the world it leaves and what it returns.
attemptCapture(w, t, siteIndex, m, p) ==
    LET tpl == w.templates[t]
    IN  IF tpl.capturedMonomers[siteIndex] # {}
        THEN [w |-> w, result |-> FALSE]
        ELSE IF InCaptureRange(tpl, siteIndex, w.monomers[m])
        THEN LET timer == tpl.captureTimers[siteIndex] + 1
             IN  IF timer >= p.captureSteps
                 THEN [w |-> [w EXCEPT
                                !.templates[t].captureTimers[siteIndex] = timer,
                                !.templates[t].capturedMonomers[siteIndex] = {m},
                                !.monomers[m].active = FALSE],
                       result |-> TRUE]
                 ELSE [w |-> [w EXCEPT
                                !.templates[t].captureTimers[siteIndex] = timer],
                       result |-> FALSE]
        ELSE [w |-> [w EXCEPT !.templates[t].captureTimers[siteIndex] = 0],
              result |-> FALSE]

\* isReadyForReplication()
isReadyForReplication(tpl) ==
    \A s \in DOMAIN tpl.capturedMonomers : tpl.capturedMonomers[s] # {}

\* template.attemptRelease(params), u the draw compared with releaseProb:
\* the world it leaves and the child it returns, as a set (empty for null).
\* The child's angle differs from the parent's by 0.1 rad at most, which is
\* below what the quarter turns tell apart.
attemptRelease(w, t, p, u) ==
    LET tpl == w.templates[t]
    IN  IF ~isReadyForReplication(tpl) THEN [w |-> w, result |-> {}]
        ELSE IF RandomBelow(u, tpl.releaseProb)
        THEN [w |-> [w EXCEPT
                       !.templates[t].capturedMonomers =
                           [s \in DOMAIN @ |-> {}],
                       !.templates[t].captureTimers =
                           [s \in DOMAIN @ |-> 0],
                       !.templates[t].starvationTimer = 0],
              result |-> {Template(0 - 1, tpl.x + p.monomerDiameter * 2, tpl.y,
                                   tpl.angle, tpl.lineageId, p)}]
        ELSE [w |-> w, result |-> {}]

\* monomer.update(params) with diffusionCoefficient 8, timeStep 1 and
\* flowVelocity 2, u the draw of brownianX; the draw of brownianY is 1/2.
Monomer_update(mon, u) ==
    [mon EXCEPT !.x = @ + (4 * (2 * u[1] - u[2])) \div u[2] + 2]

\* The monomers are followed while they are at these abscissas.
MonomerXs == 5 .. 19

\* Two templates of two sites each, whose right sites are two apart and
\* whose left sites are two apart, and two free monomers; the first
\* template may have starved for a step.
TemplateScenes ==
    { [op |-> "template",
       p |-> TemplateParams(cs),
       w |-> [templates |->
                 1 :> [Template(1, 10, 10, <<0, 1>>, 1, TemplateParams(cs))
                          EXCEPT !.starvationTimer = st]
                 @@ 2 :> Template(2, 12, 10, <<0, 1>>, 2, TemplateParams(cs)),
              monomers |-> 3 :> Monomer(15, 10) @@ 4 :> Monomer(x4, 10)]] :
        cs \in {1, 2}, st \in {0, 1}, x4 \in {7, 9} }

\* A Simulation object that is not stepped, and a world of templates and
\* monomers.
InitTemplate ==
    /\ mode = "fixed"
    /\ params = ConstructorParams(mode)
    /\ Lx = params.Lx
    /\ Ly = params.Ly
    /\ particles = EmptyMap
    /\ energyParticles = EmptyMap
    /\ reactionCatalog = EmptyMap
    /\ frameCount = 0
    /\ nextId = 0
    /\ totalReactions = 0
    /\ pc = 0
    /\ activeParticles = <<>>
    /\ activeEnergy = <<>>
    /\ i = 0
    /\ j = 0
    /\ initialized = FALSE
    /\ lastOp = "constructor"
    /\ trace = <<>>
    /\ rxLog = <<>>
    /\ reactStart = NoStores
    /\ worker = WorkerLoaded
    /\ scaffold = ScaffoldAbsent
    /\ probe \in TemplateScenes

\* template.attemptCapture(siteIndex, monomer, params), for any template,
\* site and monomer of the world.
TemplateAttemptCapture ==
    /\ probe.op = "template"
    /\ \E t \in DOMAIN probe.w.templates, m \in DOMAIN probe.w.monomers :
          \E s \in DOMAIN probe.w.templates[t].capturedMonomers :
              probe' = [probe EXCEPT
                           !.w = attemptCapture(probe.w, t, s, m, probe.p).w]
    /\ UNCHANGED <<simulation, worker, scaffold>>

\* template.attemptRelease(params), for any template of the world.
TemplateAttemptRelease ==
    /\ probe.op = "template"
    /\ \E t \in DOMAIN probe.w.templates, u \in ExecutionDraws :
          probe' = [probe EXCEPT
                       !.w = attemptRelease(probe.w, t, probe.p, u).w]
    /\ UNCHANGED <<simulation, worker, scaffold>>

\* monomer.update(params) of a free monomer.
MonomerUpdate ==
    /\ probe.op = "template"
    /\ \E m \in DOMAIN probe.w.monomers, u \in BrownianXDraws :
          LET moved == Monomer_update(probe.w.monomers[m], u)
          IN  /\ probe.w.monomers[m].active
              /\ moved.x \in MonomerXs
              /\ probe' = [probe EXCEPT !.w.monomers[m] = moved]
    /\ UNCHANGED <<simulation, worker, scaffold>>

NextTemplate ==
    \/ TemplateAttemptCapture
    \/ TemplateAttemptRelease
    \/ MonomerUpdate

SpecTemplate == InitTemplate /\ [][NextTemplate]_vars

(* ------------- C39: attemptCapture and attemptRelease ------------------ *)

\* The sites of template t that hold monomer m in the world w.
HoldersOf(w, m) ==
    {<<t, s>> \in (DOMAIN w.templates) \X {0, 1} :
        s \in DOMAIN w.templates[t].capturedMonomers
            /\ m \in w.templates[t].capturedMonomers[s]}

\* What attemptCapture(s, m) of template t may do to the world w: nothing
\* but the timer and the occupant of site s and the active flag of m.
CaptureFrame(w, after, t, s, m) ==
    /\ \A o \in DOMAIN w.templates :
          o # t => after.templates[o] = w.templates[o]
    /\ \A o \in DOMAIN w.monomers :
          o # m => after.monomers[o] = w.monomers[o]
    /\ after.templates[t] =
          [w.templates[t] EXCEPT
              !.captureTimers[s] = after.templates[t].captureTimers[s],
              !.capturedMonomers[s] = after.templates[t].capturedMonomers[s]]
    /\ after.monomers[m] =
          [w.monomers[m] EXCEPT !.active = after.monomers[m].active]

\* C39 for one attemptCapture call.
CaptureContract(w, t, s, m, p) ==
    LET r == attemptCapture(w, t, s, m, p)
        tpl == w.templates[t]
        new == r.w.templates[t]
        site == [x |-> tpl.x + (IF s = 0 THEN 1 ELSE 0 - 1) * tpl.captureRadius,
                 y |-> tpl.y]
        inRange == Hypot2(w.monomers[m].x - site.x, w.monomers[m].y - site.y)
                       < tpl.captureRadius * tpl.captureRadius
    IN  /\ CaptureFrame(w, r.w, t, s, m)
        /\ tpl.capturedMonomers[s] # {} => (~r.result /\ r.w = w)
        /\ (tpl.capturedMonomers[s] = {} /\ inRange) =>
              /\ new.captureTimers[s] = tpl.captureTimers[s] + 1
              /\ r.result <=> new.captureTimers[s] = p.captureSteps
              /\ IF r.result
                 THEN /\ new.capturedMonomers[s] = {m}
                      /\ ~r.w.monomers[m].active
                 ELSE /\ new.capturedMonomers[s] = {}
                      /\ r.w.monomers = w.monomers
        /\ (tpl.capturedMonomers[s] = {} /\ ~inRange) =>
              /\ ~r.result
              /\ new.captureTimers[s] = 0
              /\ new.capturedMonomers[s] = {}
              /\ r.w.monomers = w.monomers

\* C39 for one attemptRelease call.
ReleaseContract(w, t, p, u) ==
    LET r == attemptRelease(w, t, p, u)
        tpl == w.templates[t]
        new == r.w.templates[t]
    IN  IF r.result = {} THEN r.w = w
        ELSE /\ \A s \in 0 .. tpl.k - 1 : tpl.capturedMonomers[s] # {}
             /\ \A s \in 0 .. tpl.k - 1 :
                   new.capturedMonomers[s] = {} /\ new.captureTimers[s] = 0
             /\ new.starvationTimer = 0
             /\ \A c \in r.result : c.lineageId = tpl.lineageId
             /\ r.w = [w EXCEPT !.templates[t] = new]

\* C39: in every world the calls lead to, attemptCapture on an occupied
\* site returns false and changes nothing; on a free site it captures the
\* monomer (site occupied, monomer deactivated, true returned) exactly on
\* the in-range call that brings the site's timer to captureSteps, and an
\* out-of-range call zeroes that timer; attemptRelease returns a child only
\* when every site is occupied, then empties every site and zeroes the
\* capture timers and the starvation timer, and changes nothing when it
\* returns null.
C39_CaptureAndReleaseContracts ==
    probe.op = "template" =>
        /\ \A t \in DOMAIN probe.w.templates, m \in DOMAIN probe.w.monomers :
              \A s \in DOMAIN probe.w.templates[t].capturedMonomers :
                  CaptureContract(probe.w, t, s, m, probe.p)
        /\ \A t \in DOMAIN probe.w.templates, u \in ExecutionDraws :
              ReleaseContract(probe.w, t, probe.p, u)
        /\ \A t \in DOMAIN probe.w.templates :
              \A s \in DOMAIN probe.w.templates[t].capturedMonomers :
                  /\ probe.w.templates[t].captureTimers[s] <= probe.p.captureSteps
                  /\ probe.w.templates[t].capturedMonomers[s] # {} =>
                        probe.w.templates[t].captureTimers[s] = probe.p.captureSteps

\* C39 witness: with captureSteps 2, a template has captured both monomers
\* and released its child: no site holds a monomer, and the monomers are
\* inactive; a site of the other template has counted one in-range call.
C39_CapturedAndReleased ==
    /\ probe.op = "template"
    /\ probe.p.captureSteps = 2
    /\ \A m \in DOMAIN probe.w.monomers :
          ~probe.w.monomers[m].active /\ HoldersOf(probe.w, m) = {}
    /\ probe.w.templates[1].starvationTimer = 0
    /\ \E s \in {0, 1} : probe.w.templates[2].captureTimers[s] = 1

(* ------------------ C40: one holder for each monomer ------------------- *)

\* C40: whatever attemptCapture calls have been made, a monomer is held by
\* one capture site at most, and a call with a monomer that is already
\* inactive captures nothing.
C40_MonomerHeldOnce ==
    probe.op = "template" =>
        \A m \in DOMAIN probe.w.monomers :
            /\ Cardinality(HoldersOf(probe.w, m)) <= 1
            /\ ~probe.w.monomers[m].active =>
                  \A t \in DOMAIN probe.w.templates :
                      \A s \in DOMAIN probe.w.templates[t].capturedMonomers :
                          ~attemptCapture(probe.w, t, s, m, probe.p).result

====
